---- MODULE Spec2Model ----
(***************************************************************************)
(* Cache coordinator of the caching proxy.                                 *)
(*                                                                         *)
(* Two programs of the repository implement it:                            *)
(*   src/proxyserv.py              the pooled server; every lock           *)
(*                                 acquire/release is commented out and    *)
(*                                 the origin fetch runs in a forked       *)
(*                                 child joined with a 10 s timeout        *)
(*                                 (specification Spec);                   *)
(*   src/cache/proxyserv_inmem.py  the threaded server with the            *)
(*                                 process-wide lock and the in-memory     *)
(*                                 cache_set (specification SpecInMem).    *)
(*                                                                         *)
(* One step of a handler is one operation another handler can observe: a   *)
(* shell command on the cache file, an open/read of it, an open/truncate,  *)
(* a write, a lock operation.  A fingerprint (key) and its file path are   *)
(* identified; a response is identified by the key it answers and its      *)
(* redirect target.  The wall clock is (day of month, minute of day).      *)
(***************************************************************************)
EXTENDS Integers, FiniteSets, Sequences, TLC

NumHandlers == 2
MaxTicks == 3
MaxTokens == 4

Handlers == 1..NumHandlers
Keys == {"A", "B"}
NoKey == "none"
NoHandler == 0

VARIABLES
  files,         \* cache directory: key -> content of its file
  working,       \* the list `working` of the serving process: key -> occurrences
  redirect_map,  \* the dict redirect_map of the serving process
  cache_set,     \* the set cache_set (in-memory variant)
  lock,          \* holder of `lock` (in-memory variant), NoHandler when free
  pc,            \* position of each connection handler
  key,           \* self.key of each handler
  create_date,   \* the handler's local create_date (second line it read)
  cpc,           \* position of the forked fetch process of each handler
  response,      \* the handler's local `response`
  sent,          \* what self.connection.send delivered to the client
  err,           \* exception that ended the handler ("none" if none)
  fetches,       \* history: completed origin fetches per key
  now,           \* wall clock as `date` prints it
  halted,        \* the server was interrupted (KeyboardInterrupt)
  fingerprints,  \* the fingerprints that occur in this run (requests, redirect targets)
  waited,        \* history: this call of cache_or_request found a placeholder that was not stale
  reader,        \* class of the entity reader (EntityReader.__init__), "none" before construction
  fileobj,       \* bytes the reader's _fileobj has not delivered yet
  size,          \* the reader's _size (declared total of a fixed-length entity)
  pos,           \* the reader's _pos
  finished,      \* the reader's finished flag
  result,        \* outcome of the last readchunk call
  decoded,       \* history: concatenation of the decoded data readchunk returned
  calls,         \* history: number of readchunk calls
  reads,         \* history: number of read/readline calls on _fileobj
  payload,       \* history: the entity the source was built from
  wellformed,    \* history: the source frames the payload correctly for the reader
  io_class,      \* class of the entity buffer: "EntityIO", then "FilelikeWrap"; "none" before construction
  store,         \* content of the buffer's internal cStringIO (_fileobj of EntityIO)
  fpos,          \* position of the internal cStringIO
  io_pos,        \* _pos of EntityIO
  buffering_started, \* buffering_started of EntityIO
  is_dispatching,    \* _is_dispatching of EntityIO
  subscriber,    \* what the receiver connected to the buffer does on RAW_DATA ("absent" if none)
  log,           \* history: the dispatch.send calls, with what a receiver saw and did
  out,           \* outcome of the last call on the buffer
  ops,           \* history: number of calls on the buffer
  op,            \* history: the last call on the buffer, with its arguments
  wrote,         \* history: write() has been called on the buffer
  msg_class,     \* class of the message that owns the buffer ("none" if there is none)
  method,        \* method of a RequestMessage
  status_code,   \* status_code of a ResponseMessage
  request_method,\* request_method of a ResponseMessage ("None" until it is set)
  headers,       \* the values of the Transfer-Encoding, Content-Length and Content-Type lines, in order
  raw_fileobj,   \* the message holds its _raw_fileobj
  hdata,         \* _data of a Headers object: header-cased key -> list of values
  hout,          \* outcome of the last call on the Headers object
  hop,           \* history: the last call on the Headers object, with its arguments
  hops,          \* history: number of calls on the Headers object
  connections,   \* dispatch._connections: the (signal, sender, receiver) connected
  live,          \* the receivers that have not been garbage collected
  invoked,       \* history: the receivers the last send called
  responses,     \* what the last send returned
  dop,           \* history: the last call of the dispatcher, with its arguments
  dops,          \* history: number of calls of the dispatcher
  serial,        \* what the last str(message) returned
  origin         \* the serialization the message was parsed from

\* state of the cache coordinator
cvars == <<files, working, redirect_map, cache_set, lock, pc, key, create_date,
           cpc, response, sent, err, fetches, now, halted, fingerprints, waited>>

\* state of the entity reader
rvars == <<reader, fileobj, size, pos, finished, result, decoded, calls, reads,
           payload, wellformed>>

\* state of the entity buffer
bvars == <<io_class, store, fpos, io_pos, buffering_started, is_dispatching,
           subscriber, log, out, ops, op, wrote>>

\* state of the message
mvars == <<msg_class, method, status_code, request_method, headers, raw_fileobj>>

\* state of the header multimap
hvars == <<hdata, hout, hop, hops>>

\* state of the dispatcher
dvars == <<connections, live, invoked, responses, dop, dops>>

\* the serializations of the message
svars == <<serial, origin>>

vars == <<cvars, rvars, bvars, mvars, hvars, dvars, svars>>

(***************************************************************************)
(* File contents.                                                          *)
(***************************************************************************)
Absent == [kind |-> "absent"]
Empty == [kind |-> "empty"]
Marker == [kind |-> "marker"]
DateOnly == [kind |-> "date"]
Placeholder(t) == [kind |-> "ph", day |-> t.day, min |-> t.min]
Resp(k, l) == [kind |-> "resp", key |-> k, loc |-> l]
Nothing == [kind |-> "nothing"]
\* what a client received: the bytes, and whether they were read from the
\* cache file ("cache") or came from this handler's own fetch ("origin")
Sent(via, c) == [via |-> via, bytes |-> c]
NoDate == [day |-> -1, min |-> -1]
\* the run starts at 23:57, so that within a few minutes a placeholder can
\* go stale by the minute test and by the change of the day
StartTime == [day |-> 0, min |-> 23 * 60 + 57]
Elapsed(t) == (t.day * 24 * 60 + t.min) - StartTime.min

\* current_day != create_day or cur_h*60 + cur_m > create_h*60 + create_m + 1
Stale(cd, cur) == cur.day # cd.day \/ cur.min > cd.min + 1

InitWith(fps) ==
  /\ fingerprints = fps
  /\ files = [k \in Keys |-> Absent]
  /\ working = [k \in Keys |-> 0]
  /\ redirect_map = [k \in Keys |-> NoKey]
  /\ cache_set = {}
  /\ lock = NoHandler
  /\ pc = [h \in Handlers |-> "idle"]
  /\ key = [h \in Handlers |-> NoKey]
  /\ create_date = [h \in Handlers |-> NoDate]
  /\ cpc = [h \in Handlers |-> "none"]
  /\ response = [h \in Handlers |-> Nothing]
  /\ sent = [h \in Handlers |-> Nothing]
  /\ err = [h \in Handlers |-> "none"]
  /\ fetches = [k \in Keys |-> 0]
  /\ now = StartTime
  /\ halted = FALSE
  /\ waited = [h \in Handlers |-> FALSE]

\* no entity reader has been constructed
ReaderIdle ==
  /\ reader = "none"
  /\ fileobj = <<>>
  /\ size = 0
  /\ pos = 0
  /\ finished = FALSE
  /\ result = [kind |-> "none"]
  /\ decoded = <<>>
  /\ calls = 0
  /\ reads = 0
  /\ payload = <<>>
  /\ wellformed = FALSE

\* no entity buffer has been constructed
BufferIdle ==
  /\ io_class = "none"
  /\ store = <<>>
  /\ fpos = 0
  /\ io_pos = 0
  /\ buffering_started = FALSE
  /\ is_dispatching = FALSE
  /\ subscriber = "absent"
  /\ log = <<>>
  /\ out = [kind |-> "none"]
  /\ ops = 0
  /\ op = [name |-> "none", all |-> FALSE, n |-> 0, whence |-> 0]
  /\ wrote = FALSE

\* a header that the message does not have
NoHeader == [present |-> FALSE, value |-> ""]

\* no message has been constructed
MessageIdle ==
  /\ msg_class = "none"
  /\ method = "GET"
  /\ status_code = 200
  /\ request_method = "None"
  /\ headers = [te |-> <<>>, cl |-> <<>>, ct |-> <<>>]
  /\ raw_fileobj = FALSE

\* one fingerprint: every handler competes for the same cache entry
\* no Headers object has been made
HeadersIdle ==
  /\ hdata = <<>>
  /\ hout = "none"
  /\ hop = [name |-> "none", key |-> <<>>, value |-> <<>>, index |-> 0]
  /\ hops = 0

\* nothing is connected to the dispatcher
DispatchIdle ==
  /\ connections = {}
  /\ live = {}
  /\ invoked = {}
  /\ responses = <<>>
  /\ dop = [name |-> "none", receiver |-> "none", signal |-> "none", sender |-> "none"]
  /\ dops = 0

\* no message has been serialized
SerialIdle ==
  /\ serial = [kind |-> "none"]
  /\ origin = [kind |-> "none"]

Init ==
  /\ InitWith({"A"})
  /\ ReaderIdle /\ BufferIdle /\ MessageIdle /\ HeadersIdle /\ DispatchIdle /\ SerialIdle

\* two fingerprints, which the origin may redirect to each other
InitTwo ==
  /\ InitWith(Keys)
  /\ ReaderIdle /\ BufferIdle /\ MessageIdle /\ HeadersIdle /\ DispatchIdle /\ SerialIdle

(***************************************************************************)
(* The clock.                                                              *)
(***************************************************************************)
Tick ==
  /\ ~halted
  /\ Elapsed(now) < MaxTicks
  /\ now' = IF now.min = 23 * 60 + 59
               THEN [day |-> now.day + 1, min |-> 0]
               ELSE [now EXCEPT !.min = @ + 1]
  /\ UNCHANGED <<files, working, redirect_map, cache_set, lock, pc, key,
                 create_date, cpc, response, sent, err, fetches, halted, fingerprints, waited>>
  /\ UNCHANGED <<rvars, bvars, mvars, hvars, dvars, svars>>

(***************************************************************************)
(* handle(): HttpMessage(socket=...) reads and parses the first line and   *)
(* the headers; then the fingerprint is computed and cache_or_request      *)
(* called.  A first line is identified by what the parsers look at: whether*)
(* it begins with "HTTP/", the number of its whitespace-separated tokens   *)
(* and whether its second token is a number.                               *)
(***************************************************************************)
Firstlines ==
  {fl \in [http : BOOLEAN, tokens : 0..MaxTokens, numeric : BOOLEAN] :
     /\ fl.http => fl.tokens >= 1
     /\ fl.numeric => fl.http /\ fl.tokens >= 2}

\* HttpMessage.__init__ picks the class by firstline[:5].upper() == "HTTP/";
\* RequestMessage.process_firstline accepts 2 or 3 tokens,
\* ResponseMessage.process_firstline rejects fewer than 2 tokens and then
\* evaluates int(line_parts[1])
ProcessFirstline(fl) ==
  IF fl.http
    THEN IF fl.tokens < 2 THEN "MalformedFirstline"
         ELSE IF fl.numeric THEN "response" ELSE "ValueError"
    ELSE IF fl.tokens \in {2, 3} THEN "request" ELSE "MalformedFirstline"

\* the exception handle() ends with: MalformedFirstline is swallowed (pass),
\* anything else is logged and raised again; a response message has no
\* request_uri (AttributeError)
HandleError(fl, headers_ok) ==
  LET r == ProcessFirstline(fl) IN
  CASE r = "MalformedFirstline" -> "none"
    [] r = "ValueError" -> "ValueError"
    [] ~headers_ok -> "MalformedHeaders"
    [] r = "response" -> "AttributeError"
    [] OTHER -> "none"

\* mutant: a malformed first line is logged and raised again like any error
HandleLine_Reraises(h, fl, headers_ok) ==
  /\ ~halted
  /\ pc[h] = "idle"
  /\ IF ProcessFirstline(fl) = "request" /\ headers_ok
       THEN /\ \E k \in fingerprints : key' = [key EXCEPT ![h] = k]
            /\ pc' = [pc EXCEPT ![h] = "check"]
            /\ err' = err
       ELSE /\ key' = key
            /\ pc' = [pc EXCEPT ![h] = "done"]
            /\ err' = [err EXCEPT ![h] =
                         IF ProcessFirstline(fl) = "MalformedFirstline"
                           THEN "MalformedFirstline"
                           ELSE HandleError(fl, headers_ok)]
  /\ UNCHANGED <<files, working, redirect_map, cache_set, lock, create_date,
                 cpc, response, sent, fetches, now, halted, fingerprints, waited>>
  /\ UNCHANGED <<rvars, bvars, mvars, hvars, dvars, svars>>

HandleLine(h, fl, headers_ok) ==
  /\ ~halted
  /\ pc[h] = "idle"
  /\ IF ProcessFirstline(fl) = "request" /\ headers_ok
       THEN /\ \E k \in fingerprints : key' = [key EXCEPT ![h] = k]
            /\ pc' = [pc EXCEPT ![h] = "check"]
            /\ err' = err
       ELSE /\ key' = key
            /\ pc' = [pc EXCEPT ![h] = "done"]
            /\ err' = [err EXCEPT ![h] = HandleError(fl, headers_ok)]
  /\ UNCHANGED <<files, working, redirect_map, cache_set, lock, create_date,
                 cpc, response, sent, fetches, now, halted, fingerprints, waited>>
  /\ UNCHANGED <<rvars, bvars, mvars, hvars, dvars, svars>>

\* the headers are read only after the first line has been accepted
Handle(h) ==
  \E fl \in Firstlines, headers_ok \in BOOLEAN :
    /\ ProcessFirstline(fl) \in {"MalformedFirstline", "ValueError"} => headers_ok
    /\ HandleLine(h, fl, headers_ok)

(***************************************************************************)
(* cache_or_request of src/proxyserv.py.                                   *)
(***************************************************************************)
\* status, output = commands.getstatusoutput("ls " + filepath)
Ls(h) ==
  /\ ~halted
  /\ pc[h] = "check"
  /\ pc' = [pc EXCEPT ![h] = IF files[key[h]] # Absent THEN "open" ELSE "claim"]
  /\ UNCHANGED <<files, working, redirect_map, cache_set, lock, key,
                 create_date, cpc, response, sent, err, fetches, now, halted, fingerprints, waited>>
  /\ UNCHANGED <<rvars, bvars, mvars, hvars, dvars, svars>>

\* f = open(filepath); firstline = f.readline(); create_date = f.readline().split(" ")
\* IOError: cache_or_request() again.  Then the test of the while loop; inside
\* the loop create_date[2] raises IndexError when the file has no second line.
ReadHead(h) ==
  /\ ~halted
  /\ pc[h] = "open"
  /\ LET c == files[key[h]] IN
       /\ pc' = [pc EXCEPT ![h] =
                   CASE c = Absent -> "check"
                     [] c.kind = "ph" -> "poll"
                     [] c.kind = "marker" -> "done"
                     [] OTHER -> "hit"]
       /\ create_date' = [create_date EXCEPT ![h] =
                   IF c.kind = "ph" THEN [day |-> c.day, min |-> c.min] ELSE NoDate]
       /\ err' = [err EXCEPT ![h] = IF c.kind = "marker" THEN "IndexError" ELSE @]
       /\ waited' = [waited EXCEPT ![h] = IF c = Absent THEN FALSE ELSE @]
  /\ UNCHANGED <<files, working, redirect_map, cache_set, lock, key,
                 cpc, response, sent, fetches, now, halted, fingerprints>>
  /\ UNCHANGED <<rvars, bvars, mvars, hvars, dvars, svars>>

\* status, current_date = commands.getstatusoutput("date"); the staleness test
Poll(h) ==
  /\ ~halted
  /\ pc[h] = "poll"
  /\ pc' = [pc EXCEPT ![h] = IF Stale(create_date[h], now) THEN "rm_stale" ELSE "open"]
  /\ waited' = [waited EXCEPT ![h] = @ \/ ~Stale(create_date[h], now)]
  /\ create_date' = [create_date EXCEPT ![h] = NoDate]
  /\ UNCHANGED <<files, working, redirect_map, cache_set, lock, key,
                 cpc, response, sent, err, fetches, now, halted, fingerprints>>
  /\ UNCHANGED <<rvars, bvars, mvars, hvars, dvars, svars>>

\* os.system("rm " + filepath)
RmStale(h) ==
  /\ ~halted
  /\ pc[h] = "rm_stale"
  /\ files' = [files EXCEPT ![key[h]] = Absent]
  /\ pc' = [pc EXCEPT ![h] = "open"]
  /\ UNCHANGED <<working, redirect_map, cache_set, lock, key,
                 create_date, cpc, response, sent, err, fetches, now, halted, fingerprints, waited>>
  /\ UNCHANGED <<rvars, bvars, mvars, hvars, dvars, svars>>

\* mutant: the hit path removes the file it served
ReadAll_Evicts(h) ==
  /\ ~halted
  /\ pc[h] = "hit"
  /\ LET c == files[key[h]] IN
       /\ pc' = [pc EXCEPT ![h] = IF c = Absent THEN "check" ELSE "done"]
       /\ sent' = [sent EXCEPT ![h] = IF c = Absent THEN @ ELSE Sent("cache", c)]
       /\ waited' = [waited EXCEPT ![h] = IF c = Absent THEN FALSE ELSE @]
  /\ files' = [files EXCEPT ![key[h]] = Absent]
  /\ UNCHANGED <<working, redirect_map, cache_set, lock, key,
                 create_date, cpc, response, err, fetches, now, halted,
                 fingerprints>>
  /\ UNCHANGED <<rvars, bvars, mvars, hvars, dvars, svars>>

\* f = open(filepath); response = f.read(); self.connection.send(response)
ReadAll(h) ==
  /\ ~halted
  /\ pc[h] = "hit"
  /\ LET c == files[key[h]] IN
       /\ pc' = [pc EXCEPT ![h] = IF c = Absent THEN "check" ELSE "done"]
       /\ sent' = [sent EXCEPT ![h] = IF c = Absent THEN @ ELSE Sent("cache", c)]
       /\ waited' = [waited EXCEPT ![h] = IF c = Absent THEN FALSE ELSE @]
  /\ UNCHANGED <<files, working, redirect_map, cache_set, lock, key,
                 create_date, cpc, response, err, fetches, now, halted, fingerprints>>
  /\ UNCHANGED <<rvars, bvars, mvars, hvars, dvars, svars>>

\* working.append(filepath); the shell opens the file with `>` (truncating)
AppendWorking(h) ==
  /\ ~halted
  /\ pc[h] = "claim"
  /\ working' = [working EXCEPT ![key[h]] = @ + 1]
  /\ files' = [files EXCEPT ![key[h]] = Empty]
  /\ pc' = [pc EXCEPT ![h] = "ph_echo"]
  /\ UNCHANGED <<redirect_map, cache_set, lock, key,
                 create_date, cpc, response, sent, err, fetches, now, halted, fingerprints, waited>>
  /\ UNCHANGED <<rvars, bvars, mvars, hvars, dvars, svars>>

\* echo ~empty~ > filepath: the marker line is written at offset 0 of the file
\* opened before.  An unlinked file stays absent; over another placeholder
\* the same bytes leave it as it is; over anything else the file now starts
\* with the marker line and has no timestamp line that parses.
EchoOver(c) ==
  CASE c.kind = "absent" -> Absent
    [] c.kind = "ph" -> c
    [] OTHER -> Marker

PhEcho(h) ==
  /\ ~halted
  /\ pc[h] = "ph_echo"
  /\ files' = [files EXCEPT ![key[h]] = EchoOver(@)]
  /\ pc' = [pc EXCEPT ![h] = "ph_date"]
  /\ UNCHANGED <<working, redirect_map, cache_set, lock, key,
                 create_date, cpc, response, sent, err, fetches, now, halted, fingerprints, waited>>
  /\ UNCHANGED <<rvars, bvars, mvars, hvars, dvars, svars>>

\* date >> filepath appends one line to whatever the file holds (creating the
\* file when it is gone).  After the marker line it is the placeholder's
\* second line; after other content it leaves the first two lines as they are.
AppendDate(c, t) ==
  CASE c.kind = "marker" -> Placeholder(t)
    [] c.kind \in {"absent", "empty"} -> DateOnly
    [] OTHER -> c

PhDate(h) ==
  /\ ~halted
  /\ pc[h] = "ph_date"
  /\ files' = [files EXCEPT ![key[h]] = AppendDate(@, now)]
  /\ pc' = [pc EXCEPT ![h] = "spawn"]
  /\ UNCHANGED <<working, redirect_map, cache_set, lock, key,
                 create_date, cpc, response, sent, err, fetches, now, halted, fingerprints, waited>>
  /\ UNCHANGED <<rvars, bvars, mvars, hvars, dvars, svars>>

\* Process(target=...).start() raised: except-clause of cache_or_request,
\* which logs, runs os.system("rm " + filepath) and re-raises.
SpawnFail(h) ==
  /\ ~halted
  /\ pc[h] = "spawn"
  /\ files' = [files EXCEPT ![key[h]] = Absent]
  /\ err' = [err EXCEPT ![h] = "OSError"]
  /\ pc' = [pc EXCEPT ![h] = "done"]
  /\ UNCHANGED <<working, redirect_map, cache_set, lock, key,
                 create_date, cpc, response, sent, fetches, now, halted, fingerprints, waited>>
  /\ UNCHANGED <<rvars, bvars, mvars, hvars, dvars, svars>>

\* p = Process(target=(lambda: self.request_to_server())); p.start(); p.join(10)
Spawn(h) ==
  /\ ~halted
  /\ pc[h] = "spawn"
  /\ cpc' = [cpc EXCEPT ![h] = "fetch"]
  /\ pc' = [pc EXCEPT ![h] = "join"]
  /\ UNCHANGED <<files, working, redirect_map, cache_set, lock, key,
                 create_date, response, sent, err, fetches, now, halted, fingerprints, waited>>
  /\ UNCHANGED <<rvars, bvars, mvars, hvars, dvars, svars>>

(***************************************************************************)
(* request_to_server of src/proxyserv.py, run by the forked child.  The    *)
(* child works on its own copy of the parent's memory: what it does to     *)
(* redirect_map and to working is lost when it exits, so the parent's      *)
(* redirect_map and working are left as they are.                          *)
(***************************************************************************)
\* the dict the child tests for a cycle: its copy with redirect_map[key] set
RecordRedirect(m, k, l) == [m EXCEPT ![k] = l]

\* redirect_url in redirect_map and redirect_map[redirect_url] == key
IsCycle(m, k, l) == l # NoKey /\ m[l] = k

\* response = request.fetch_response(sock=sock), then the cycle removal:
\* del redirect_map[redirect_url]; rm key_to_filepath(redirect_url)
ChildFetch(h) ==
  /\ ~halted
  /\ cpc[h] = "fetch"
  /\ \E l \in fingerprints \cup {NoKey} :
       LET k == key[h]
           m == IF l = NoKey THEN redirect_map ELSE RecordRedirect(redirect_map, k, l)
       IN
       /\ response' = [response EXCEPT ![h] = Resp(k, l)]
       /\ files' = IF IsCycle(m, k, l) THEN [files EXCEPT ![l] = Absent] ELSE files
       \* if save_to_cache and not (key == redirect_url)
       /\ cpc' = [cpc EXCEPT ![h] = IF k = l THEN "send" ELSE "save_open"]
       /\ fetches' = [fetches EXCEPT ![k] = @ + 1]
  /\ UNCHANGED <<working, redirect_map, cache_set, lock, pc, key,
                 create_date, sent, err, now, halted, fingerprints, waited>>
  /\ UNCHANGED <<rvars, bvars, mvars, hvars, dvars, svars>>

\* sock.connect or fetch_response raised: the child prints the traceback and
\* exits; p.join(10) returns in the parent, p.is_alive() is False
ChildFail(h) ==
  /\ ~halted
  /\ pc[h] = "join"
  /\ cpc[h] = "fetch"
  /\ cpc' = [cpc EXCEPT ![h] = "failed"]
  /\ pc' = [pc EXCEPT ![h] = "done"]
  /\ UNCHANGED <<files, working, redirect_map, cache_set, lock, key,
                 create_date, response, sent, err, fetches, now, halted, fingerprints, waited>>
  /\ UNCHANGED <<rvars, bvars, mvars, hvars, dvars, svars>>

\* f = open(filepath, 'w')
ChildSaveOpen(h) ==
  /\ ~halted
  /\ cpc[h] = "save_open"
  /\ files' = [files EXCEPT ![key[h]] = Empty]
  /\ cpc' = [cpc EXCEPT ![h] = "save_write"]
  /\ UNCHANGED <<working, redirect_map, cache_set, lock, pc, key,
                 create_date, response, sent, err, fetches, now, halted, fingerprints, waited>>
  /\ UNCHANGED <<rvars, bvars, mvars, hvars, dvars, svars>>

\* f.write(response); f.close()  (the file may have been unlinked meanwhile:
\* the write then goes to the unlinked inode and the path stays absent)
WriteTo(c, r) == IF c = Absent THEN Absent ELSE r

ChildSaveWrite(h) ==
  /\ ~halted
  /\ cpc[h] = "save_write"
  /\ files' = [files EXCEPT ![key[h]] = WriteTo(@, response[h])]
  /\ cpc' = [cpc EXCEPT ![h] = "send"]
  /\ UNCHANGED <<working, redirect_map, cache_set, lock, pc, key,
                 create_date, response, sent, err, fetches, now, halted, fingerprints, waited>>
  /\ UNCHANGED <<rvars, bvars, mvars, hvars, dvars, svars>>

ChildAlive(h) == cpc[h] \in {"fetch", "save_open", "save_write", "send"}

\* self.connection.send(response); the child exits, p.join(10) returns in the
\* parent with p.is_alive() False, and cache_or_request returns
ChildSend(h) ==
  /\ ~halted
  /\ pc[h] = "join"
  /\ cpc[h] = "send"
  /\ sent' = [sent EXCEPT ![h] = Sent("origin", response[h])]
  /\ response' = [response EXCEPT ![h] = Nothing]
  /\ cpc' = [cpc EXCEPT ![h] = "exit"]
  /\ pc' = [pc EXCEPT ![h] = "done"]
  /\ UNCHANGED <<files, working, redirect_map, cache_set, lock, key,
                 create_date, err, fetches, now, halted, fingerprints, waited>>
  /\ UNCHANGED <<rvars, bvars, mvars, hvars, dvars, svars>>

\* after p.join(10) the child is still alive: p.terminate(); p.join()
Timeout(h) ==
  /\ ~halted
  /\ pc[h] = "join"
  /\ ChildAlive(h)
  /\ cpc' = [cpc EXCEPT ![h] = "killed"]
  /\ response' = [response EXCEPT ![h] = Nothing]
  /\ pc' = [pc EXCEPT ![h] = "timeout_rm"]
  /\ UNCHANGED <<files, working, redirect_map, cache_set, lock, key,
                 create_date, sent, err, fetches, now, halted, fingerprints, waited>>
  /\ UNCHANGED <<rvars, bvars, mvars, hvars, dvars, svars>>

\* os.system("rm " + filepath)
TimeoutRm(h) ==
  /\ ~halted
  /\ pc[h] = "timeout_rm"
  /\ files' = [files EXCEPT ![key[h]] = Absent]
  /\ pc' = [pc EXCEPT ![h] = "timeout_unmark"]
  /\ UNCHANGED <<working, redirect_map, cache_set, lock, key,
                 create_date, cpc, response, sent, err, fetches, now, halted,
                 fingerprints, waited>>
  /\ UNCHANGED <<rvars, bvars, mvars, hvars, dvars, svars>>

\* mutant: the timeout path leaves working as it is
TimeoutUnmark_Keeps(h) ==
  /\ ~halted
  /\ pc[h] = "timeout_unmark"
  /\ pc' = [pc EXCEPT ![h] = "done"]
  /\ UNCHANGED <<files, working, redirect_map, cache_set, lock, key,
                 create_date, cpc, response, sent, err, fetches, now, halted,
                 fingerprints, waited>>
  /\ UNCHANGED <<rvars, bvars, mvars, hvars, dvars, svars>>

\* working.remove(filepath): ValueError when filepath is not in the list
TimeoutUnmark(h) ==
  /\ ~halted
  /\ pc[h] = "timeout_unmark"
  /\ IF working[key[h]] > 0
       THEN /\ working' = [working EXCEPT ![key[h]] = @ - 1]
            /\ err' = err
       ELSE /\ working' = working
            /\ err' = [err EXCEPT ![h] = "ValueError"]
  /\ pc' = [pc EXCEPT ![h] = "done"]
  /\ UNCHANGED <<files, redirect_map, cache_set, lock, key,
                 create_date, cpc, response, sent, fetches, now, halted,
                 fingerprints, waited>>
  /\ UNCHANGED <<rvars, bvars, mvars, hvars, dvars, svars>>

(***************************************************************************)
(* __main__: except KeyboardInterrupt: for f in working: os.system("rm "+f)*)
(***************************************************************************)
Shutdown ==
  /\ ~halted
  /\ halted' = TRUE
  /\ files' = [k \in Keys |-> IF working[k] > 0 THEN Absent ELSE files[k]]
  /\ UNCHANGED <<working, redirect_map, cache_set, lock, pc, key,
                 create_date, cpc, response, sent, err, fetches, now, fingerprints, waited>>
  /\ UNCHANGED <<rvars, bvars, mvars, hvars, dvars, svars>>

(***************************************************************************)
(* cache_or_request of src/cache/proxyserv_inmem.py.  The file reads       *)
(* (ReadHead, Poll, ReadAll) and the first two steps of the placeholder    *)
(* write (AppendWorking, PhEcho) are the same code as in src/proxyserv.py. *)
(***************************************************************************)
\* lock.acquire()
Acquire(h) ==
  /\ ~halted
  /\ pc[h] = "check"
  /\ lock = NoHandler
  /\ lock' = h
  /\ pc' = [pc EXCEPT ![h] = "test"]
  /\ UNCHANGED <<files, working, redirect_map, cache_set, key,
                 create_date, cpc, response, sent, err, fetches, now, halted, fingerprints, waited>>
  /\ UNCHANGED <<rvars, bvars, mvars, hvars, dvars, svars>>

\* if read_from_cache and key in cache_set: lock.release() ... else: (lock kept)
TestCacheSet(h) ==
  /\ ~halted
  /\ pc[h] = "test"
  /\ IF key[h] \in cache_set
       THEN /\ lock' = NoHandler
            /\ pc' = [pc EXCEPT ![h] = "open"]
       ELSE /\ lock' = lock
            /\ pc' = [pc EXCEPT ![h] = "claim"]
  /\ UNCHANGED <<files, working, redirect_map, cache_set, key,
                 create_date, cpc, response, sent, err, fetches, now, halted, fingerprints, waited>>
  /\ UNCHANGED <<rvars, bvars, mvars, hvars, dvars, svars>>

\* lock.acquire(); cache_set.remove(key); os.system("rm " + filepath); lock.release()
\* cache_set.remove raises KeyError when the key is gone: the handler ends
\* with the lock still held.
RmStaleInMem(h) ==
  /\ ~halted
  /\ pc[h] = "rm_stale"
  /\ lock = NoHandler
  /\ IF key[h] \in cache_set
       THEN /\ cache_set' = cache_set \ {key[h]}
            /\ files' = [files EXCEPT ![key[h]] = Absent]
            /\ lock' = NoHandler
            /\ pc' = [pc EXCEPT ![h] = "open"]
            /\ err' = err
       ELSE /\ lock' = h
            /\ pc' = [pc EXCEPT ![h] = "done"]
            /\ err' = [err EXCEPT ![h] = "KeyError"]
            /\ UNCHANGED <<cache_set, files, fingerprints, waited>>
  /\ UNCHANGED <<working, redirect_map, key,
                 create_date, cpc, response, sent, fetches, now, halted, fingerprints, waited>>
  /\ UNCHANGED <<rvars, bvars, mvars, hvars, dvars, svars>>

\* mutant: the lock is not released before request_to_server
PhDateInMem_KeepsLock(h) ==
  /\ ~halted
  /\ pc[h] = "ph_date"
  /\ files' = [files EXCEPT ![key[h]] = AppendDate(@, now)]
  /\ cache_set' = cache_set \cup {key[h]}
  /\ pc' = [pc EXCEPT ![h] = "fetch"]
  /\ UNCHANGED <<working, redirect_map, lock, key,
                 create_date, cpc, response, sent, err, fetches, now, halted,
                 fingerprints, waited>>
  /\ UNCHANGED <<rvars, bvars, mvars, hvars, dvars, svars>>

\* date >> filepath; cache_set.add(key); lock.release()
PhDateInMem(h) ==
  /\ ~halted
  /\ pc[h] = "ph_date"
  /\ files' = [files EXCEPT ![key[h]] = AppendDate(@, now)]
  /\ cache_set' = cache_set \cup {key[h]}
  /\ lock' = NoHandler
  /\ pc' = [pc EXCEPT ![h] = "fetch"]
  /\ UNCHANGED <<working, redirect_map, key,
                 create_date, cpc, response, sent, err, fetches, now, halted, fingerprints, waited>>
  /\ UNCHANGED <<rvars, bvars, mvars, hvars, dvars, svars>>

(***************************************************************************)
(* request_to_server of src/cache/proxyserv_inmem.py, run by the handler's *)
(* own thread on the shared redirect_map, cache_set and working.           *)
(***************************************************************************)
\* response = request.fetch_response(); if response.location:
\* redirect_map[key] = redirect_url
FetchInMem(h) ==
  /\ ~halted
  /\ pc[h] = "fetch"
  /\ \E l \in fingerprints \cup {NoKey} :
       LET k == key[h] IN
       /\ response' = [response EXCEPT ![h] = Resp(k, l)]
       /\ redirect_map' = IF l = NoKey THEN redirect_map
                                       ELSE RecordRedirect(redirect_map, k, l)
       /\ pc' = [pc EXCEPT ![h] = IF l = NoKey THEN "save_open" ELSE "cycle_test"]
       /\ fetches' = [fetches EXCEPT ![k] = @ + 1]
  /\ UNCHANGED <<files, working, cache_set, lock, key,
                 create_date, cpc, sent, err, now, halted, fingerprints, waited>>
  /\ UNCHANGED <<rvars, bvars, mvars, hvars, dvars, svars>>

\* if redirect_url in redirect_map and redirect_map[redirect_url] == key:
\* the test reads the shared dict without the lock, some time after the write
TestCycleInMem(h) ==
  /\ ~halted
  /\ pc[h] = "cycle_test"
  /\ pc' = [pc EXCEPT ![h] =
              IF IsCycle(redirect_map, key[h], response[h].loc) THEN "cycle"
                                                                ELSE "save_open"]
  /\ UNCHANGED <<files, working, redirect_map, cache_set, lock, key,
                 create_date, cpc, response, sent, err, fetches, now, halted,
                 fingerprints, waited>>
  /\ UNCHANGED <<rvars, bvars, mvars, hvars, dvars, svars>>

\* fetch_response raised: the except-clause of cache_or_request is entered
FetchFailInMem(h) ==
  /\ ~halted
  /\ pc[h] = "fetch"
  /\ pc' = [pc EXCEPT ![h] = "cleanup"]
  /\ err' = [err EXCEPT ![h] = "FetchError"]
  /\ UNCHANGED <<files, working, redirect_map, cache_set, lock, key,
                 create_date, cpc, response, sent, fetches, now, halted, fingerprints, waited>>
  /\ UNCHANGED <<rvars, bvars, mvars, hvars, dvars, svars>>

\* lock.acquire(); del redirect_map[redirect_url]; cache_set.remove(redirect_url);
\* os.system("rm " + key_to_filepath(redirect_url)); lock.release()
\* del and remove raise KeyError when the entry is gone: the except-clause of
\* cache_or_request is entered with the lock held.
CycleInMem(h) ==
  /\ ~halted
  /\ pc[h] = "cycle"
  /\ lock = NoHandler
  /\ LET l == response[h].loc IN
       IF redirect_map[l] = NoKey
         THEN /\ lock' = h
              /\ pc' = [pc EXCEPT ![h] = "cleanup"]
              /\ err' = [err EXCEPT ![h] = "KeyError"]
              /\ UNCHANGED <<redirect_map, cache_set, files, fingerprints, waited>>
         ELSE IF l \notin cache_set
           THEN /\ redirect_map' = [redirect_map EXCEPT ![l] = NoKey]
                /\ lock' = h
                /\ pc' = [pc EXCEPT ![h] = "cleanup"]
                /\ err' = [err EXCEPT ![h] = "KeyError"]
                /\ UNCHANGED <<cache_set, files, fingerprints, waited>>
           ELSE /\ redirect_map' = [redirect_map EXCEPT ![l] = NoKey]
                /\ cache_set' = cache_set \ {l}
                /\ files' = [files EXCEPT ![l] = Absent]
                /\ lock' = NoHandler
                /\ pc' = [pc EXCEPT ![h] = "save_open"]
                /\ err' = err
  /\ UNCHANGED <<working, key, create_date, cpc, response, sent, fetches, now, halted, fingerprints, waited>>
  /\ UNCHANGED <<rvars, bvars, mvars, hvars, dvars, svars>>

\* f = open(filepath, 'w')
SaveOpenInMem(h) ==
  /\ ~halted
  /\ pc[h] = "save_open"
  /\ files' = [files EXCEPT ![key[h]] = Empty]
  /\ pc' = [pc EXCEPT ![h] = "save_write"]
  /\ UNCHANGED <<working, redirect_map, cache_set, lock, key,
                 create_date, cpc, response, sent, err, fetches, now, halted, fingerprints, waited>>
  /\ UNCHANGED <<rvars, bvars, mvars, hvars, dvars, svars>>

\* f.write(response); f.close()
SaveWriteInMem(h) ==
  /\ ~halted
  /\ pc[h] = "save_write"
  /\ files' = [files EXCEPT ![key[h]] = WriteTo(@, response[h])]
  /\ pc' = [pc EXCEPT ![h] = "send"]
  /\ UNCHANGED <<working, redirect_map, cache_set, lock, key,
                 create_date, cpc, response, sent, err, fetches, now, halted, fingerprints, waited>>
  /\ UNCHANGED <<rvars, bvars, mvars, hvars, dvars, svars>>

\* working.remove(filepath); self.connection.send(response)
SendInMem(h) ==
  /\ ~halted
  /\ pc[h] = "send"
  /\ working' = [working EXCEPT ![key[h]] = @ - 1]
  /\ sent' = [sent EXCEPT ![h] = Sent("origin", response[h])]
  /\ response' = [response EXCEPT ![h] = Nothing]
  /\ pc' = [pc EXCEPT ![h] = "done"]
  /\ UNCHANGED <<files, redirect_map, cache_set, lock, key,
                 create_date, cpc, err, fetches, now, halted, fingerprints, waited>>
  /\ UNCHANGED <<rvars, bvars, mvars, hvars, dvars, svars>>

\* working.remove(filepath); self.connection.send(response) raises (the client
\* is gone): the except-clause of cache_or_request is entered
SendFailInMem(h) ==
  /\ ~halted
  /\ pc[h] = "send"
  /\ working' = [working EXCEPT ![key[h]] = @ - 1]
  /\ err' = [err EXCEPT ![h] = "SendError"]
  /\ pc' = [pc EXCEPT ![h] = "cleanup"]
  /\ UNCHANGED <<files, redirect_map, cache_set, lock, key,
                 create_date, cpc, response, sent, fetches, now, halted, fingerprints, waited>>
  /\ UNCHANGED <<rvars, bvars, mvars, hvars, dvars, svars>>

\* except Exception: lock.acquire(); cache_set.remove(key);
\* os.system("rm " + filepath); lock.release(); raise e
\* (blocks for ever when this handler itself still holds the lock)
CleanupInMem(h) ==
  /\ ~halted
  /\ pc[h] = "cleanup"
  /\ lock = NoHandler
  /\ IF key[h] \in cache_set
       THEN /\ cache_set' = cache_set \ {key[h]}
            /\ files' = [files EXCEPT ![key[h]] = Absent]
            /\ lock' = NoHandler
            /\ err' = err
       ELSE /\ lock' = h
            /\ err' = [err EXCEPT ![h] = "KeyError"]
            /\ UNCHANGED <<cache_set, files, fingerprints, waited>>
  /\ response' = [response EXCEPT ![h] = Nothing]
  /\ pc' = [pc EXCEPT ![h] = "done"]
  /\ UNCHANGED <<working, redirect_map, key,
                 create_date, cpc, sent, fetches, now, halted, fingerprints, waited>>
  /\ UNCHANGED <<rvars, bvars, mvars, hvars, dvars, svars>>

Step(h) ==
  \/ Handle(h)
  \/ Ls(h)
  \/ ReadHead(h)
  \/ Poll(h)
  \/ RmStale(h)
  \/ ReadAll(h)
  \/ AppendWorking(h)
  \/ PhEcho(h)
  \/ PhDate(h)
  \/ SpawnFail(h)
  \/ Spawn(h)
  \/ ChildFetch(h)
  \/ ChildFail(h)
  \/ ChildSaveOpen(h)
  \/ ChildSaveWrite(h)
  \/ ChildSend(h)
  \/ Timeout(h)
  \/ TimeoutRm(h)
  \/ TimeoutUnmark(h)

Next ==
  \/ Tick
  \/ Shutdown
  \/ \E h \in Handlers : Step(h)

StepInMem(h) ==
  \/ Handle(h)
  \/ Acquire(h)
  \/ TestCacheSet(h)
  \/ ReadHead(h)
  \/ Poll(h)
  \/ RmStaleInMem(h)
  \/ ReadAll(h)
  \/ AppendWorking(h)
  \/ PhEcho(h)
  \/ PhDateInMem(h)
  \/ FetchInMem(h)
  \/ FetchFailInMem(h)
  \/ TestCycleInMem(h)
  \/ CycleInMem(h)
  \/ SaveOpenInMem(h)
  \/ SaveWriteInMem(h)
  \/ SendInMem(h)
  \/ SendFailInMem(h)
  \/ CleanupInMem(h)

NextInMem ==
  \/ Tick
  \/ Shutdown
  \/ \E h \in Handlers : StepInMem(h)

Spec == Init /\ [][Next]_vars

SpecInMem == Init /\ [][NextInMem]_vars

SpecTwo == InitTwo /\ [][Next]_vars

SpecInMemTwo == InitTwo /\ [][NextInMem]_vars

(***************************************************************************)
(* Vocabulary of the properties.                                           *)
(***************************************************************************)
\* the state of a cache entry; a file opened for writing and still empty
\* belongs to the write in progress
EntryState(c) ==
  CASE c.kind = "absent" -> "MISSING"
    [] c.kind \in {"empty", "marker", "ph", "date"} -> "PENDING"
    [] OTHER -> "READY"

\* the handler is in the origin fetch of its claim
Fetching(h) == (pc[h] = "join" /\ cpc[h] = "fetch") \/ pc[h] = "fetch"

\* the handler passed the cache check as a claimant and has not returned
ClaimPositions ==
  {"ph_echo", "ph_date", "spawn", "join", "timeout_rm", "timeout_unmark",
   "fetch", "cycle_test", "cycle", "save_open", "save_write", "send", "cleanup"}

Claimed(h) == pc[h] \in ClaimPositions

\* the handler served its client from the cache file
ServedFromCache(h) == sent[h] # Nothing /\ sent[h].via = "cache"

(***************************************************************************)
(* C1.  Mutual exclusion of claims: at most one handler at a time is in    *)
(* the origin fetch for a fingerprint.                                     *)
(***************************************************************************)
C1_MutualExclusion ==
  \A k \in Keys : Cardinality({h \in Handlers : key[h] = k /\ Fetching(h)}) <= 1

(***************************************************************************)
(* C2.  When every handler of a run requested the same fingerprint while   *)
(* nothing was cached, no fetch failed or timed out and no placeholder     *)
(* could go stale, the run made exactly one origin fetch and every client  *)
(* got the same bytes.                                                     *)
(***************************************************************************)
C2_OneFetchIdenticalResponses ==
  ( /\ ~halted
    /\ now = StartTime
    /\ \A h \in Handlers : key[h] # NoKey /\ pc[h] = "done" /\ err[h] = "none"
                             /\ cpc[h] \in {"none", "exit"} )
  => \A k \in fingerprints :
       /\ fetches[k] = 1
       /\ \A g, h \in Handlers :
            sent[g] # Nothing /\ sent[h] # Nothing /\ sent[g].bytes = sent[h].bytes

(***************************************************************************)
(* C3.  A handler that is in the origin fetch, polls a placeholder or      *)
(* reads the cache file does not hold the lock.                            *)
(***************************************************************************)
C3_NoLockDuringIO ==
  \A h \in Handlers :
    pc[h] \in {"fetch", "open", "poll", "rm_stale", "hit"} => lock # h

\* a handler is in its fetch while another one holds the lock for its claim
C3_Witness ==
  \E g, h \in Handlers : g # h /\ pc[g] = "fetch" /\ lock = h /\ pc[h] = "ph_date"

(***************************************************************************)
(* C4.  A cache entry moves only MISSING -> PENDING, PENDING -> READY and  *)
(* PENDING -> MISSING; a READY entry is left only by the redirect-cycle    *)
(* cleanup, which deletes it.                                              *)
(***************************************************************************)
CycleCleanupStep ==
  \E h \in Handlers : (cpc[h] = "fetch" /\ cpc'[h] # "fetch") \/ (pc[h] = "cycle" /\ pc'[h] # "cycle")

C4_EntryEdges ==
  [][\A k \in Keys :
       LET a == EntryState(files[k])
           b == EntryState(files'[k])
       IN \/ a = b /\ (a = "READY" => files'[k] = files[k])
          \/ <<a, b>> \in {<<"MISSING", "PENDING">>, <<"PENDING", "READY">>,
                           <<"PENDING", "MISSING">>}
          \/ a = "READY" /\ b = "MISSING" /\ CycleCleanupStep]_vars

(***************************************************************************)
(* C5.  What a handler serves from the cache is the complete response of   *)
(* one completed fetch for its fingerprint.                                *)
(***************************************************************************)
C5_ServedComplete ==
  \A h \in Handlers :
    ServedFromCache(h) => sent[h].bytes.kind = "resp" /\ sent[h].bytes.key = key[h]

(***************************************************************************)
(* C6.  When a claimant returns because its fetch failed, the entry is     *)
(* MISSING and working holds the path no more often than there are other   *)
(* handlers still in a claim of that fingerprint.                          *)
(***************************************************************************)
FailureReturn(h) ==
  /\ Claimed(h)
  /\ pc'[h] = "done"
  /\ err'[h] # "none" \/ cpc'[h] = "failed"

C6_FailureCleansUp ==
  [][\A h \in Handlers :
       FailureReturn(h) =>
         /\ EntryState(files'[key[h]]) = "MISSING"
         /\ working'[key[h]] <=
              Cardinality({g \in Handlers \ {h} :
                             key[g] = key[h] /\ pc'[g] \in ClaimPositions})]_vars

(***************************************************************************)
(* C7.  When the fetch worker is terminated after the timeout, the         *)
(* coordinator goes on to delete the cache file and then to remove one     *)
(* occurrence of the path from working (which is there to remove).         *)
(***************************************************************************)
C7_TimeoutCleansUp ==
  [][\A h \in Handlers :
       /\ (pc[h] = "join" /\ cpc'[h] = "killed") => pc'[h] = "timeout_rm"
       /\ (pc[h] = "timeout_rm" /\ pc'[h] # "timeout_rm") =>
            /\ EntryState(files'[key[h]]) = "MISSING"
            /\ pc'[h] = "timeout_unmark"
       /\ (pc[h] = "timeout_unmark" /\ pc'[h] # "timeout_unmark") =>
            /\ working'[key[h]] = working[key[h]] - 1
            /\ err'[h] = "none"
            /\ pc'[h] = "done"]_vars

\* a handler returned from the timeout path and the entry can be claimed
C7_Witness ==
  \E h \in Handlers :
    /\ pc[h] = "done" /\ cpc[h] = "killed"
    /\ EntryState(files[key[h]]) = "MISSING"
    /\ working[key[h]] = 0

(***************************************************************************)
(* C8.  A handler that finds a stale placeholder deletes it and removes an *)
(* in-flight mark of the fingerprint before it retries.                    *)
(***************************************************************************)
C8_StaleReclaim ==
  [][\A h \in Handlers :
       (pc[h] = "rm_stale" /\ pc'[h] = "open") =>
         /\ EntryState(files'[key[h]]) = "MISSING"
         /\ working'[key[h]] < working[key[h]]]_vars

(***************************************************************************)
(* C9.  A handler that found a placeholder that was not stale and then     *)
(* served its client from the cache served a complete response of its      *)
(* fingerprint.                                                            *)
(***************************************************************************)
C9_WaiterServesStored ==
  \A h \in Handlers :
    (waited[h] /\ ServedFromCache(h)) =>
      sent[h].bytes.kind = "resp" /\ sent[h].bytes.key = key[h]

(***************************************************************************)
(* C10.  The steps of a cache hit (the check, the read of the first lines, *)
(* the read of the whole file and the send) on a READY entry change neither*)
(* the cache files, working, redirect_map, cache_set nor the fetch count,  *)
(* start no fetch, and deliver the bytes of the file.                      *)
(***************************************************************************)
HitStep(h) ==
  /\ pc[h] \in {"check", "test", "open", "hit"}
  /\ pc'[h] # pc[h]
  /\ EntryState(files[key[h]]) = "READY"
  /\ pc[h] = "test" => key[h] \in cache_set

C10_CacheHit ==
  [][\A h \in Handlers :
       HitStep(h) =>
         /\ UNCHANGED <<files, working, redirect_map, cache_set, fetches>>
         /\ cpc'[h] = cpc[h]
         /\ pc[h] = "check" => pc'[h] \in {"open", "test"}
         /\ pc[h] = "test" => pc'[h] = "open"
         /\ pc[h] = "open" => pc'[h] = "hit"
         /\ pc[h] = "hit" => pc'[h] = "done" /\ sent'[h] = Sent("cache", files[key[h]])]_vars

\* a handler served the stored response of a fetch another handler made
C10_Witness ==
  \E g, h \in Handlers :
    /\ g # h /\ key[g] = key[h]
    /\ pc[h] = "done" /\ ServedFromCache(h) /\ ~waited[h]
    /\ sent[g] # Nothing /\ sent[g].via = "origin"
    /\ sent[h].bytes = sent[g].bytes /\ files[key[h]] = sent[h].bytes
    /\ fetches[key[h]] = 1

(***************************************************************************)
(* C11.  When a claimant returns from a fetch that succeeded (and did not  *)
(* redirect to its own fingerprint), the cache file holds the response it  *)
(* sent and working holds the path no more often than there are other      *)
(* handlers still in a claim of that fingerprint.                          *)
(***************************************************************************)
SuccessReturn(h) ==
  /\ Claimed(h)
  /\ pc'[h] = "done"
  /\ sent'[h] # Nothing /\ sent'[h].via = "origin"
  /\ sent'[h].bytes.loc # key[h]

C11_SuccessStoresAndUnmarks ==
  [][\A h \in Handlers :
       SuccessReturn(h) =>
         /\ files'[key[h]] = sent'[h].bytes
         /\ working'[key[h]] <=
              Cardinality({g \in Handlers \ {h} :
                             key[g] = key[h] /\ pc'[g] \in ClaimPositions})]_vars

(***************************************************************************)
(* C12.  When a handler has fetched fingerprint F and the response         *)
(* redirects to another fingerprint T, then as soon as it is through with  *)
(* the redirect bookkeeping redirect_map holds F -> T, and if redirect_map *)
(* held T -> F before, T's cache file is gone and T has no redirect_map    *)
(* entry.                                                                  *)
(***************************************************************************)
\* the step with which a handler leaves the redirect bookkeeping of its fetch
RedirectDone(h) ==
  \/ cpc[h] = "fetch" /\ cpc'[h] \in {"save_open", "send"}
  \/ pc[h] = "cycle_test" /\ pc'[h] = "save_open"
  \/ pc[h] = "cycle" /\ pc'[h] # "cycle"

\* the handler found that the target maps back to its fingerprint
FoundCycle(h) ==
  \/ pc[h] = "cycle"
  \/ cpc[h] = "fetch" /\ redirect_map[response'[h].loc] = key[h]

C12_RedirectRecordedCycleBroken ==
  [][\A h \in Handlers :
       (RedirectDone(h) /\ response'[h].loc \notin {NoKey, key[h]}) =>
         LET f == key[h]
             t == response'[h].loc
         IN /\ redirect_map'[f] = t
            /\ FoundCycle(h) => files'[t] = Absent /\ redirect_map'[t] = NoKey]_vars

(***************************************************************************)
(* C13.  Two-hop scenario: a handler fetched fingerprint A, got a redirect *)
(* to B, stored and sent it; afterwards another handler fetches B and gets *)
(* a redirect to A.  When that handler is through with the redirect        *)
(* bookkeeping, a cache entry of the cycle has been removed together with  *)
(* its redirect_map entry.  (The claim names B's; the formula also accepts *)
(* A's, the target of the second redirect.)                                *)
(***************************************************************************)
\* handler g completed the first hop: it sent the redirect from its own
\* fingerprint to t
FirstHopDone(g, t) ==
  /\ pc[g] = "done"
  /\ sent[g] = Sent("origin", Resp(key[g], t))

EntryRemoved(k) == files'[k] = Absent /\ redirect_map'[k] = NoKey

C13_TwoHopCycleRemoved ==
  [][\A g, h \in Handlers :
       ( /\ key[g] # key[h]
         /\ FirstHopDone(g, key[h])
         /\ pc[h] # "done"
         /\ RedirectDone(h)
         /\ response'[h] = Resp(key[h], key[g]) )
       => EntryRemoved(key[h]) \/ EntryRemoved(key[g])]_vars

(***************************************************************************)
(* C14.  A handler that writes redirect_map[key] after its fetch, or reads *)
(* redirect_map for the cycle test, holds the lock while it does so; and   *)
(* never have two handlers both found the cycle between their two          *)
(* fingerprints (so that each is about to delete the other's entry).       *)
(***************************************************************************)
\* h's step is the write redirect_map[key] = redirect_url or the cycle test
TouchesRedirectMap(h) ==
  \/ pc[h] = "fetch" /\ pc'[h] = "cycle_test"
  \/ pc[h] = "cycle_test" /\ pc'[h] # "cycle_test"

BothFoundCycle ==
  \E g, h \in Handlers :
    /\ key[g] # key[h]
    /\ pc[g] = "cycle" /\ response[g].loc = key[h]
    /\ pc[h] = "cycle" /\ response[h].loc = key[g]

C14_RedirectMapUnderLock ==
  [][/\ \A h \in Handlers : TouchesRedirectMap(h) => lock = h
     /\ ~BothFoundCycle']_vars

(***************************************************************************)
(* C15.  The shutdown deletes the cache file of every fingerprint that     *)
(* working holds, and every file it deletes was a PENDING placeholder or   *)
(* belongs to a fingerprint whose claimant has stored the response but not *)
(* yet returned.                                                           *)
(***************************************************************************)
ShutdownStep == ~halted /\ halted'

C15_ShutdownDeletesOnlyPending ==
  [][ShutdownStep =>
       \A k \in Keys :
         /\ working[k] > 0 => files'[k] = Absent
         /\ files'[k] # files[k] =>
              \/ EntryState(files[k]) = "PENDING"
              \/ \E h \in Handlers : key[h] = k /\ Claimed(h)]_vars

\* the first lines process_firstline rejects with MalformedFirstline
MalformedLines == {fl \in Firstlines : ProcessFirstline(fl) = "MalformedFirstline"}

(***************************************************************************)
(* C16.  When the first line of the inbound request is rejected as         *)
(* malformed, handle() returns without an error, nothing has been sent to  *)
(* the client, and cache files, working, redirect_map, cache_set and the   *)
(* fetch count are as before.                                              *)
(***************************************************************************)
C16_MalformedFirstlineSilent ==
  [][\A h \in Handlers : (pc[h] = "idle" /\ pc'[h] # "idle") =>
       \A fl \in MalformedLines : \A headers_ok \in BOOLEAN :
         HandleLine(h, fl, headers_ok) =>
           /\ pc'[h] = "done" /\ err'[h] = "none"
           /\ sent'[h] = Nothing /\ cpc'[h] = "none" /\ key'[h] = NoKey
           /\ UNCHANGED <<files, working, redirect_map, cache_set, lock, fetches>>]_vars

\* a connection ended silently while another handler's claim was in flight
C16_Witness ==
  \E g, h \in Handlers :
    /\ pc[h] = "done" /\ key[h] = NoKey /\ err[h] = "none" /\ sent[h] = Nothing
    /\ Claimed(g) /\ EntryState(files[key[g]]) = "PENDING"

(***************************************************************************)
(* Entity readers (src/httpmessage/_entityreader.py).  A source is the     *)
(* sequence of bytes its file object will deliver before it reports end of *)
(* file; read(count) of a file or of SocketAdaptor returns count bytes     *)
(* unless the source ends first.                                           *)
(***************************************************************************)
MaxPayload == 3

\* read_size of SimpleEntityReader and TilCloseEntityReader (4096), scaled
ReadSize == 2

MaxCalls == MaxPayload + 3

CR == "\r"

LF == "\n"

CRLF == <<CR, LF>>

HexDigits == {"0", "1", "2"}

Bytes == HexDigits \cup {"-", "x", CR, LF}

PayloadBytes == {"x", LF}

Min(a, b) == IF a < b THEN a ELSE b

Take(s, n) == SubSeq(s, 1, Min(n, Len(s)))

Drop(s, n) == SubSeq(s, n + 1, Len(s))

\* fileobj.read(count); a negative count reads everything that is left
Read(f, count) == IF count < 0 THEN f ELSE Take(f, count)

\* fileobj.readline(): up to and including the first "\n", or all that is left
Readline(f) ==
  IF \E i \in 1..Len(f) : f[i] = LF
    THEN SubSeq(f, 1, CHOOSE i \in 1..Len(f) : f[i] = LF /\ \A j \in 1..(i - 1) : f[j] # LF)
    ELSE f

Whitespace == {CR, LF}

RECURSIVE Strip(_)
\* str.strip()
Strip(s) ==
  IF s = <<>> THEN s
  ELSE IF s[1] \in Whitespace THEN Strip(Tail(s))
  ELSE IF s[Len(s)] \in Whitespace THEN Strip(SubSeq(s, 1, Len(s) - 1))
  ELSE s

DigitValue(c) == CASE c = "0" -> 0 [] c = "1" -> 1 [] c = "2" -> 2

RECURSIVE HexValue(_)
HexValue(s) ==
  IF s = <<>> THEN 0
  ELSE 16 * HexValue(SubSeq(s, 1, Len(s) - 1)) + DigitValue(s[Len(s)])

\* int(s, 16): an optional sign and at least one hexadecimal digit, ValueError
\* (ok = FALSE) otherwise
Int16(s) ==
  LET neg == s # <<>> /\ s[1] = "-"
      digits == IF neg THEN Tail(s) ELSE s
  IN  IF digits = <<>> \/ \E i \in 1..Len(digits) : digits[i] \notin HexDigits
        THEN [ok |-> FALSE, val |-> 0]
        ELSE [ok |-> TRUE, val |-> IF neg THEN 0 - HexValue(digits) ELSE HexValue(digits)]

\* what a readchunk call ends with
Returns(data, raw) == [kind |-> "return", data |-> data, raw |-> raw]

Raises(e) == [kind |-> "raise", exc |-> e]

\* the terminal signal '', ''
Terminal == Returns(<<>>, <<>>)

Outcome(r, f, p, fin, n) ==
  [result |-> r, fileobj |-> f, pos |-> p, finished |-> fin, reads |-> n]

\* EntityReader.__init__: the class chosen for an entity_size
\* an entity_size: one of the constants of const.py, or an integer
Const(c) == [const |-> c, n |-> 0]

Length(n) == [const |-> "int", n |-> n]

EntityReader(entity_size) ==
  CASE entity_size.const = "ZERO_BYTE_CHUNK" -> "ChunkedEntityReader"
    [] entity_size.const = "MULTIPART_BYTERANGE" -> "MultipartEntityReader"
    [] entity_size.const = "CONNECTION_CLOSE" -> "TilCloseEntityReader"
    [] entity_size.const = "int" /\ entity_size.n = 0 -> "NullEntityReader"
    [] OTHER -> "SimpleEntityReader"

\* SimpleEntityReader.readchunk reading read_size bytes whatever is left of the
\* declared size
SimpleChunk_ReadsReadSize(f, sz, p) ==
  LET raw_data == Read(f, ReadSize)
  IN  IF sz - p <= 0 THEN Outcome(Terminal, f, p, FALSE, 0)
      ELSE IF raw_data = <<>> THEN Outcome(Raises("EntityReadError"), f, p, FALSE, 1)
      ELSE Outcome(Returns(raw_data, raw_data), Drop(f, Len(raw_data)),
                   p + Len(raw_data), FALSE, 1)

\* SimpleEntityReader.readchunk that does not advance _pos
SimpleChunk_KeepsPos(f, sz, p) ==
  LET this_read_size == Min(ReadSize, sz - p)
      raw_data == Read(f, this_read_size)
  IN  IF this_read_size = 0 THEN Outcome(Terminal, f, p, FALSE, 0)
      ELSE IF raw_data = <<>> THEN Outcome(Raises("EntityReadError"), f, p, FALSE, 1)
      ELSE Outcome(Returns(raw_data, raw_data), Drop(f, Len(raw_data)), p, FALSE, 1)

\* SimpleEntityReader.readchunk answering '', '' as soon as the source is dry
SimpleChunk_Truncates(f, sz, p) ==
  LET this_read_size == Min(ReadSize, sz - p)
      raw_data == Read(f, this_read_size)
  IN  IF this_read_size = 0 \/ raw_data = <<>>
        THEN Outcome(Terminal, f, p, FALSE, IF this_read_size = 0 THEN 0 ELSE 1)
        ELSE Outcome(Returns(raw_data, raw_data), Drop(f, Len(raw_data)),
                     p + Len(raw_data), FALSE, 1)

\* SimpleEntityReader.readchunk
SimpleChunk(f, sz, p) ==
  LET size_left == sz - p
      this_read_size == Min(ReadSize, size_left)
      raw_data == Read(f, this_read_size)
  IN  IF this_read_size < 0 THEN Outcome(Raises("AssertionError"), f, p, FALSE, 0)
      ELSE IF this_read_size = 0 THEN Outcome(Terminal, f, p, FALSE, 0)
      ELSE IF raw_data = <<>> THEN Outcome(Raises("EntityReadError"), f, p, FALSE, 1)
      ELSE Outcome(Returns(raw_data, raw_data), Drop(f, Len(raw_data)),
                   p + Len(raw_data), FALSE, 1)

\* TilCloseEntityReader.readchunk
TilCloseChunk(f) ==
  LET raw_data == Read(f, ReadSize)
  IN  IF raw_data = <<>> THEN Outcome(Terminal, f, 0, FALSE, 1)
      ELSE Outcome(Returns(raw_data, raw_data), Drop(f, Len(raw_data)), 0, FALSE, 1)

\* ChunkedEntityReader.readchunk without the test of the end separator
ChunkedChunk_AnySeparator(f, fin) ==
  LET raw_data == Readline(f)
      f1 == Drop(f, Len(raw_data))
      n == Int16(Strip(raw_data))
      chunk_data == IF n.val = 0 THEN <<>> ELSE Read(f1, n.val)
      f2 == Drop(f1, Len(chunk_data))
      sep == Readline(f2)
      f3 == Drop(f2, Len(sep))
  IN  IF fin THEN Outcome(Terminal, f, 0, TRUE, 0)
      ELSE IF raw_data = <<>> \/ ~n.ok THEN Outcome(Raises("EntityReadError"), f1, 0, FALSE, 1)
      ELSE IF n.val # 0 /\ Len(chunk_data) # n.val
        THEN Outcome(Raises("EntityReadError"), f2, 0, FALSE, 2)
      ELSE Outcome(Returns(chunk_data, raw_data \o chunk_data \o sep), f3, 0, n.val = 0,
                   IF n.val = 0 THEN 2 ELSE 3)

\* ChunkedEntityReader.readchunk reading on after the zero chunk
ChunkedChunk_Rereads(f, fin) ==
  LET raw_data == Readline(f)
      f1 == Drop(f, Len(raw_data))
      n == Int16(Strip(raw_data))
      chunk_data == IF n.val = 0 THEN <<>> ELSE Read(f1, n.val)
      f2 == Drop(f1, Len(chunk_data))
      sep == Readline(f2)
      f3 == Drop(f2, Len(sep))
  IN  IF raw_data = <<>> /\ fin THEN Outcome(Terminal, f1, 0, TRUE, 1)
      ELSE IF raw_data = <<>> \/ ~n.ok THEN Outcome(Raises("EntityReadError"), f1, 0, fin, 1)
      ELSE IF n.val # 0 /\ Len(chunk_data) # n.val
        THEN Outcome(Raises("EntityReadError"), f2, 0, fin, 2)
      ELSE IF sep # CRLF
        THEN Outcome(Raises("EntityReadError"), f3, 0, fin \/ n.val = 0,
                     IF n.val = 0 THEN 2 ELSE 3)
      ELSE Outcome(Returns(chunk_data, raw_data \o chunk_data \o sep), f3, 0,
                   fin \/ n.val = 0, IF n.val = 0 THEN 2 ELSE 3)

\* ChunkedEntityReader.readchunk: the size line, the data, the end separator;
\* _verify_read raises EntityReadError when a read returned nothing
ChunkedChunk(f, fin) ==
  LET raw_data == Readline(f)
      f1 == Drop(f, Len(raw_data))
      n == Int16(Strip(raw_data))
      chunk_data == IF n.val = 0 THEN <<>> ELSE Read(f1, n.val)
      f2 == Drop(f1, Len(chunk_data))
      sep == Readline(f2)
      f3 == Drop(f2, Len(sep))
  IN  IF fin THEN Outcome(Terminal, f, 0, TRUE, 0)
      ELSE IF raw_data = <<>> THEN Outcome(Raises("EntityReadError"), f1, 0, FALSE, 1)
      ELSE IF ~n.ok THEN Outcome(Raises("EntityReadError"), f1, 0, FALSE, 1)
      ELSE IF n.val # 0 /\ (chunk_data = <<>> \/ Len(chunk_data) # n.val)
        THEN Outcome(Raises("EntityReadError"), f2, 0, FALSE, 2)
      ELSE IF sep = <<>> \/ sep # CRLF
        THEN Outcome(Raises("EntityReadError"), f3, 0, n.val = 0,
                     IF n.val = 0 THEN 2 ELSE 3)
      ELSE Outcome(Returns(chunk_data, raw_data \o chunk_data \o sep), f3, 0, n.val = 0,
                   IF n.val = 0 THEN 2 ELSE 3)

\* a readchunk call ending as o says
Call(o) ==
  /\ calls < MaxCalls
  /\ calls' = calls + 1
  /\ result' = o.result
  /\ fileobj' = o.fileobj
  /\ pos' = o.pos
  /\ finished' = o.finished
  /\ reads' = reads + o.reads
  /\ decoded' = IF o.result.kind = "return" THEN decoded \o o.result.data ELSE decoded
  /\ UNCHANGED <<reader, size, payload, wellformed>>
  /\ UNCHANGED <<cvars, bvars, mvars, hvars, dvars, svars>>

SimpleReadchunk ==
  /\ reader = "SimpleEntityReader"
  /\ Call(SimpleChunk(fileobj, size, pos))

TilCloseReadchunk ==
  /\ reader = "TilCloseEntityReader"
  /\ Call(TilCloseChunk(fileobj))

ChunkedReadchunk ==
  /\ reader = "ChunkedEntityReader"
  /\ Call(ChunkedChunk(fileobj, finished))

\* MultipartEntityReader.readchunk answering like the zero-length reader
MultipartReadchunk_Terminal ==
  /\ reader = "MultipartEntityReader"
  /\ Call(Outcome(Terminal, fileobj, 0, FALSE, 0))

\* MultipartEntityReader.readchunk
MultipartReadchunk ==
  /\ reader = "MultipartEntityReader"
  /\ Call(Outcome(Raises("NotImplementedError"), fileobj, 0, FALSE, 0))

\* NullEntityReader.readchunk
NullReadchunk ==
  /\ reader = "NullEntityReader"
  /\ Call(Outcome(Terminal, fileobj, 0, FALSE, 0))

(***************************************************************************)
(* The sources the readers are run on.  A chunked entity is framed as the  *)
(* comment of ChunkedEntityReader.readchunk describes it: for each chunk   *)
(* its size in hex and "\r\n", the data, "\r\n"; then the zero chunk.  The *)
(* bytes of the next message may follow the entity on the connection.  A   *)
(* damaged source is cut short, or has one byte replaced or inserted.      *)
(***************************************************************************)
Payloads == UNION {[1..n -> PayloadBytes] : n \in 0..MaxPayload}

RECURSIVE Sum(_)
Sum(s) == IF s = <<>> THEN 0 ELSE s[1] + Sum(Tail(s))

\* the ways to cut n bytes into chunks of one or two bytes
Splits(n) == {s \in UNION {[1..k -> {1, 2}] : k \in 0..n} : Sum(s) = n}

ToHex(n) == IF n = 1 THEN <<"1">> ELSE <<"2">>

RECURSIVE Chunked(_, _)
Chunked(p, s) ==
  IF s = <<>> THEN <<"0">> \o CRLF \o CRLF
  ELSE ToHex(s[1]) \o CRLF \o Take(p, s[1]) \o CRLF \o Chunked(Drop(p, s[1]), Tail(s))

Following == {<<>>, <<"x">>}

Damaged(s) ==
  {SubSeq(s, 1, n) : n \in 0..(Len(s) - 1)}
    \cup {[s EXCEPT ![x[1]] = x[2]] : x \in {y \in (1..Len(s)) \X Bytes : s[y[1]] # y[2]}}
    \cup {SubSeq(s, 1, x[1]) \o <<x[2]>> \o SubSeq(s, x[1] + 1, Len(s)) :
            x \in (0..(Len(s) - 1)) \X Bytes}

\* EntityReader(fileobj, entity_size) constructed over source f
Construct(entity_size, f, p, w) ==
  /\ reader = EntityReader(entity_size)
  /\ fileobj = f
  /\ size = entity_size.n
  /\ payload = p
  /\ wellformed = w

\* a reader of either class has been constructed over some source; a declared
\* length may be above or below the number of bytes the source holds
InitReader ==
  /\ InitWith({"A"})
  /\ BufferIdle
  /\ MessageIdle /\ HeadersIdle /\ DispatchIdle /\ SerialIdle
  /\ \E p \in Payloads :
       \/ \E s \in Splits(Len(p)) :
            \/ \E t \in Following :
                 Construct(Const("ZERO_BYTE_CHUNK"), Chunked(p, s) \o t, p, TRUE)
            \/ \E d \in Damaged(Chunked(p, s)) :
                 Construct(Const("ZERO_BYTE_CHUNK"), d, p, FALSE)
       \/ \E n \in 0..(MaxPayload + 1), t \in Following :
            Construct(Length(n), p \o t, Take(p \o t, n), Len(p \o t) >= n)
       \/ Construct(Const("CONNECTION_CLOSE"), p, p, TRUE)
       \/ Construct(Const("MULTIPART_BYTERANGE"), p, p, FALSE)
  /\ pos = 0
  /\ finished = FALSE
  /\ result = [kind |-> "none"]
  /\ decoded = <<>>
  /\ calls = 0
  /\ reads = 0

NextReader ==
  \/ SimpleReadchunk
  \/ TilCloseReadchunk
  \/ ChunkedReadchunk
  \/ MultipartReadchunk
  \/ NullReadchunk

SpecReader == InitReader /\ [][NextReader]_vars

(***************************************************************************)
(* C17: for the fixed-length, zero-length, chunked and until-close readers *)
(* over a well-formed source, no readchunk call fails, the call number     *)
(* Len(payload) + 2 at the latest returns the terminal '', '', and when    *)
(* the terminal result is returned the decoded data returned so far,       *)
(* concatenated, is the payload.                                           *)
(***************************************************************************)
C17_ReadersTerminateWithPayload ==
  wellformed =>
    /\ result.kind # "raise"
    /\ (result = Terminal => decoded = payload)
    /\ (calls >= Len(payload) + 2 => result = Terminal)

\* a chunked entity of several chunks, followed by bytes of the next message,
\* has been read to the terminal result
C17_Witness ==
  /\ wellformed
  /\ reader = "ChunkedEntityReader"
  /\ result = Terminal
  /\ Len(payload) = MaxPayload
  /\ calls = MaxPayload + 2
  /\ fileobj # <<>>

\* a call of ChunkedEntityReader.readchunk before the zero chunk has been read
ChunkedCall == reader = "ChunkedEntityReader" /\ ~finished /\ calls' = calls + 1

\* a hexadecimal numeral, as int(s, 16) reads it: an optional sign, then digits
HexNumeral(s) ==
  LET d == IF s # <<>> /\ s[1] = "-" THEN Tail(s) ELSE s
  IN  d # <<>> /\ \A i \in 1..Len(d) : d[i] \in HexDigits

(***************************************************************************)
(* C18: a call of the chunked readchunk consumes the chunk-size line; it   *)
(* raises EntityReadError when the line holds no hexadecimal number; for a *)
(* size n other than zero it returns the n bytes after the line as decoded *)
(* data, with raw bytes size line + data + CRLF, consuming exactly these,  *)
(* when n bytes and then CRLF follow the line, and raises EntityReadError  *)
(* when fewer than n bytes or something else than CRLF follow.             *)
(***************************************************************************)
C18_ChunkedReadsOneChunk ==
  [][ChunkedCall =>
      LET line == Readline(fileobj)
          rest == Drop(fileobj, Len(line))
          n == HexValue(IF Strip(line)[1] = "-" THEN Tail(Strip(line)) ELSE Strip(line))
          sz == IF Strip(line)[1] = "-" THEN 0 - n ELSE n
          data == SubSeq(rest, 1, sz)
      IN  /\ Len(fileobj') <= Len(rest)
          /\ fileobj' = Drop(fileobj, Len(fileobj) - Len(fileobj'))
          /\ ~HexNumeral(Strip(line)) => result' = Raises("EntityReadError")
          /\ (HexNumeral(Strip(line)) /\ sz # 0) =>
               IF sz > 0 /\ Len(rest) >= sz + 2 /\ SubSeq(rest, sz + 1, sz + 2) = CRLF
                 THEN /\ result' = Returns(data, line \o data \o CRLF)
                      /\ fileobj' = Drop(rest, sz + 2)
                 ELSE result' = Raises("EntityReadError")]_vars

\* a chunk has been returned and a later call has failed on what followed it
C18_Witness ==
  /\ reader = "ChunkedEntityReader"
  /\ decoded # <<>>
  /\ result = Raises("EntityReadError")
  /\ ~finished

\* a call of SimpleEntityReader.readchunk
SimpleCall == reader = "SimpleEntityReader" /\ calls' = calls + 1

(***************************************************************************)
(* C19: a call of the fixed-length readchunk that finds the source dry     *)
(* while _pos is below the declared size raises EntityReadError, and a     *)
(* call returns the terminal '', '' only when _pos equals the declared     *)
(* size; _pos is the number of bytes the reader has delivered.             *)
(***************************************************************************)
C19_FixedLengthNeverTruncates ==
  [][SimpleCall =>
      /\ (fileobj = <<>> /\ pos < size) => result' = Raises("EntityReadError")
      /\ result' = Terminal => pos = size /\ Len(decoded) = size]_vars

\* part of the declared length was delivered, then the source ran dry and the
\* call failed
C19_Witness ==
  /\ reader = "SimpleEntityReader"
  /\ result = Raises("EntityReadError")
  /\ 0 < pos
  /\ pos < size
  /\ Len(decoded) = pos
  /\ fileobj = <<>>

(***************************************************************************)
(* C20: once the chunked reader has read a chunk of size zero (finished),  *)
(* every later readchunk call returns '', '', reads nothing from the       *)
(* source and leaves the reader finished.                                  *)
(***************************************************************************)
C20_ChunkedTerminalPermanent ==
  [][(reader = "ChunkedEntityReader" /\ finished /\ calls' = calls + 1) =>
      /\ result' = Terminal
      /\ fileobj' = fileobj
      /\ reads' = reads
      /\ finished']_vars

\* two calls after the zero chunk returned the terminal result although bytes
\* were left on the source
C20_Witness ==
  /\ reader = "ChunkedEntityReader"
  /\ finished
  /\ result = Terminal
  /\ fileobj # <<>>
  /\ Len(decoded) = 1
  /\ calls >= 4
  /\ reads = 5

(***************************************************************************)
(* C21: the entity size MULTIPART_BYTERANGE gets a reader class of its     *)
(* own, and every readchunk call on that reader raises NotImplementedError:*)
(* it never returns data, never returns the terminal '', '' and reads      *)
(* nothing from the source.                                                *)
(***************************************************************************)
C21_MultipartNotImplemented ==
  [][/\ EntityReader(Const("MULTIPART_BYTERANGE")) = "MultipartEntityReader"
     /\ (reader = "MultipartEntityReader" /\ calls' = calls + 1) =>
          /\ result' = Raises("NotImplementedError")
          /\ decoded' = <<>>
          /\ fileobj' = fileobj
          /\ reader' = reader]_vars

\* repeated calls on a multipart reader over a source that holds bytes
C21_Witness ==
  /\ reader = "MultipartEntityReader"
  /\ calls >= 2
  /\ result = Raises("NotImplementedError")
  /\ fileobj # <<>>

(***************************************************************************)
(* The entity buffer of _entityio.py: EntityIO reads an entity through an  *)
(* EntityReader into an internal cStringIO, publishes what it reads on the *)
(* dispatcher, and changes its class to FilelikeWrap when the reader has   *)
(* answered '', ''.  The methods are operators on a record b holding the   *)
(* object (cls, store, fpos, pos, started, disp), its reader (f, rpos,     *)
(* fin) and the histories (res, reads, dec, calls, log); they give the     *)
(* record after the call and what the call ended with.                     *)
(***************************************************************************)
MaxOps == 2

Max(a, b) == IF a > b THEN a ELSE b

NUL == "\\0"

SEEK_SET == 0

SEEK_CUR == 1

SEEK_END == 2

\* cStringIO.seek: the new position, never below zero
StringIO_seek(content, at, position, whence) ==
  Max(0, position + (CASE whence = SEEK_END -> Len(content)
                       [] whence = SEEK_CUR -> at
                       [] OTHER -> 0))

\* cStringIO.write: the content after writing data at position at; a gap left
\* by a seek beyond the end is filled with NUL bytes
StringIO_write(content, at, data) ==
  [i \in 1..Max(Len(content), at + Len(data)) |->
     IF i > at /\ i <= at + Len(data) THEN data[i - at]
     ELSE IF i <= Len(content) THEN content[i]
     ELSE NUL]

\* cStringIO.read: n bytes from position at, all that is left when n < 0
StringIO_read(content, at, n) ==
  IF at >= Len(content) THEN <<>>
  ELSE IF n < 0 THEN SubSeq(content, at + 1, Len(content))
  ELSE SubSeq(content, at + 1, Min(at + n, Len(content)))

\* the readchunk of the reader class the buffer was constructed with
Readchunk(f, p, fin) ==
  CASE reader = "SimpleEntityReader" -> SimpleChunk(f, size, p)
    [] reader = "TilCloseEntityReader" -> TilCloseChunk(f)
    [] reader = "ChunkedEntityReader" -> ChunkedChunk(f, fin)
    [] reader = "MultipartEntityReader" ->
         Outcome(Raises("NotImplementedError"), f, 0, FALSE, 0)
    [] OTHER -> Outcome(Terminal, f, 0, FALSE, 0)

\* a call that returned: a string (data), a pair of strings (data, raw), a
\* number (n), or None
Value(data, raw, n) == [kind |-> "return", data |-> data, raw |-> raw, n |-> n]

None == Value(<<>>, <<>>, 0)

Ret(b, v) == [b |-> b, out |-> v]

Exc(b, e) == [b |-> b, out |-> Raises(e)]

\* the arguments a receiver that calls back into the buffer uses
ReenterSize == 1

ReenterData == <<"w">>

RECURSIVE buffer_chunk(_), buffer_all(_), buffer_to(_, _), read(_, _, _)
RECURSIVE seek(_, _, _), write(_, _), send(_, _, _)

\* EntityIO._is_dispatching test at the head of the guarded methods
IsDispatching(b) == b.disp

\* EntityIO.tell
tell(b) == Ret(b, Value(<<>>, <<>>, b.pos))

\* FilelikeWrap.__getattr__: read, seek, tell and write are those of the
\* internal cStringIO; the buffering methods are not among filelike_methods
Wrap_read(b, all, sz) ==
  LET data == StringIO_read(b.store, b.fpos, IF all THEN 0 - 1 ELSE sz)
  IN  Ret([b EXCEPT !.fpos = @ + Len(data)], Value(data, <<>>, 0))

Wrap_seek(b, position, whence) ==
  Ret([b EXCEPT !.fpos = StringIO_seek(b.store, b.fpos, position, whence)], None)

Wrap_tell(b) == Ret(b, Value(<<>>, <<>>, b.fpos))

Wrap_write(b, data) ==
  Ret([b EXCEPT !.store = StringIO_write(b.store, b.fpos, data),
                !.fpos = @ + Len(data)], None)

\* what the receiver connected to the buffer answers to a signal; a receiver
\* that calls back into the buffer does so on RAW_DATA.  The relay of a
\* message, at END_DATA, takes the length of the entity with tell(),
\* seek(0, SEEK_END), tell() and seek(pos, SEEK_SET) on the buffer, by then a
\* FilelikeWrap.
Receive(b, signal) ==
  IF signal # "RAW_DATA"
    THEN IF subscriber = "relay" /\ signal = "END_DATA"
           THEN Wrap_seek(Wrap_seek(b, 0, SEEK_END).b, Wrap_tell(b).out.n, SEEK_SET)
           ELSE Ret(b, None)
  ELSE CASE subscriber = "abort" -> Ret(b, Value(<<"ABORT">>, <<>>, 0))
         [] subscriber = "abort_once" ->
              IF \E i \in 1..Len(b.log) : b.log[i].signal = "RAW_DATA"
                THEN Ret(b, None) ELSE Ret(b, Value(<<"ABORT">>, <<>>, 0))
         [] subscriber = "buffer_chunk" -> buffer_chunk(b)
         [] subscriber = "read" -> read(b, FALSE, ReenterSize)
         [] subscriber = "seek" -> seek(b, 0, SEEK_SET)
         [] subscriber = "write" -> write(b, ReenterData)
         [] subscriber = "tell" -> tell(b)
         [] OTHER -> Ret(b, None)

\* the body of dispatch.send once the receivers are known: r is how the call
\* of the receiver ended (received says there was one); an exception it raised
\* is trapped and becomes its response
Deliver(b, signal, info, received, r) ==
  [b |-> [r.b EXCEPT !.log = Append(@, [signal |-> signal, sender |-> "buffer",
                                        info |-> info, cls |-> b.cls,
                                        received |-> received, inner |-> r.out,
                                        store |-> b.store, pos |-> b.pos,
                                        cursor |-> <<b.fpos, r.b.fpos>>,
                                        after |-> <<r.b.store, r.b.pos>>])],
   responses |-> IF ~received THEN <<>>
                 ELSE <<IF r.out.kind = "raise" THEN r.out.exc
                        ELSE IF r.out.data = <<"ABORT">> THEN "ABORT"
                        ELSE "None">>]

\* dispatch.send(signal, sender, info) with the buffer as sender
send(b, signal, info) ==
  Deliver(b, signal, info, subscriber # "absent",
          IF subscriber = "absent" THEN Ret(b, None) ELSE Receive(b, signal))

\* EntityIO._transmogrify that leaves the class as it is
_transmogrify_KeepsClass(b) ==
  IF IsDispatching(b) THEN Exc(b, "ReentrantDispatch")
  ELSE Wrap_seek(send(Wrap_seek(b, tell(b).out.n, SEEK_SET).b, "END_DATA", <<>>).b,
                 tell(b).out.n, SEEK_SET)

\* EntityIO._transmogrify: once the class is changed, seek is that of
\* FilelikeWrap
_transmogrify(b) ==
  IF IsDispatching(b) THEN Exc(b, "ReentrantDispatch")
  ELSE Wrap_seek(send(Wrap_seek([b EXCEPT !.cls = "FilelikeWrap"],
                                tell(b).out.n, SEEK_SET).b,
                      "END_DATA", <<>>).b,
                 tell(b).out.n, SEEK_SET)

\* EntityIO._fileobj_len
_fileobj_len(b) ==
  IF IsDispatching(b) THEN Exc(b, "ReentrantDispatch")
  ELSE Ret([b EXCEPT !.fpos = StringIO_seek(b.store, b.fpos, 0, SEEK_END)],
           Value(<<>>, <<>>, Len(b.store)))

\* a call t made last in a method that returns v: its exception is the
\* method's
Returned(t, v) == IF t.out.kind = "raise" THEN t ELSE Ret(t.b, v)

\* the end of EntityIO.buffer_chunk that does not look for ABORT among the
\* responses
buffer_chunk_responses_IgnoresAbort(r, v) == Ret([r.b EXCEPT !.disp = FALSE], v)

\* the end of EntityIO.buffer_chunk, r being what dispatch.send gave and v the
\* pair to return: the flag is dropped, ABORT among the responses raises
buffer_chunk_responses(r, v) ==
  IF \E i \in 1..Len(r.responses) : r.responses[i] = "ABORT"
    THEN Exc([r.b EXCEPT !.disp = FALSE], "BufferingAbort")
    ELSE Ret([r.b EXCEPT !.disp = FALSE], v)

\* EntityIO.buffer_chunk after readchunk, publishing the decoded bytes in
\* place of the raw ones
buffer_chunk_data_SendsData(b1, o) ==
  LET b2 == [b1 EXCEPT !.f = o.fileobj, !.rpos = o.pos, !.fin = o.finished,
                       !.res = o.result, !.reads = @ + o.reads,
                       !.calls = @ + 1,
                       !.dec = IF o.result.kind = "return"
                                 THEN @ \o o.result.data ELSE @]
  IN  IF o.result.kind = "raise" THEN Exc(b2, o.result.exc)
      ELSE IF o.result.raw = <<>>
        THEN Returned(_transmogrify(b2), Value(o.result.data, o.result.raw, 0))
      ELSE buffer_chunk_responses(
             send([b2 EXCEPT !.store = StringIO_write(b2.store, b2.fpos, o.result.data),
                             !.fpos = b2.fpos + Len(o.result.data),
                             !.disp = TRUE],
                  "RAW_DATA", o.result.data),
             Value(o.result.data, o.result.raw, 0))

\* EntityIO.buffer_chunk after readchunk ended as o says, b1 being the buffer
\* before it: an exception of the reader is the method's; '' converts the
\* buffer; anything else is written and published
buffer_chunk_data(b1, o) ==
  LET b2 == [b1 EXCEPT !.f = o.fileobj, !.rpos = o.pos, !.fin = o.finished,
                       !.res = o.result, !.reads = @ + o.reads,
                       !.calls = @ + 1,
                       !.dec = IF o.result.kind = "return"
                                 THEN @ \o o.result.data ELSE @]
  IN  IF o.result.kind = "raise" THEN Exc(b2, o.result.exc)
      ELSE IF o.result.raw = <<>>
        THEN Returned(_transmogrify(b2), Value(o.result.data, o.result.raw, 0))
      ELSE buffer_chunk_responses(
             send([b2 EXCEPT !.store = StringIO_write(b2.store, b2.fpos, o.result.data),
                             !.fpos = b2.fpos + Len(o.result.data),
                             !.disp = TRUE],
                  "RAW_DATA", o.result.raw),
             Value(o.result.data, o.result.raw, 0))

\* EntityIO.buffer_chunk writing where the internal position happens to be
buffer_chunk_NoSeekEnd(b) ==
  IF IsDispatching(b) THEN Exc(b, "ReentrantDispatch")
  ELSE buffer_chunk_data([b EXCEPT !.started = TRUE], Readchunk(b.f, b.rpos, b.fin))

\* EntityIO.buffer_chunk
buffer_chunk(b) ==
  IF IsDispatching(b) THEN Exc(b, "ReentrantDispatch")
  ELSE buffer_chunk_data([b EXCEPT !.started = TRUE,
                                   !.fpos = StringIO_seek(b.store, b.fpos, 0, SEEK_END)],
                         Readchunk(b.f, b.rpos, b.fin))

\* one turn of the loops of buffer_all (all) and buffer_to, c being how
\* buffer_chunk ended and need what is still to buffer
buffer_next(c, all, need) ==
  IF c.out.kind = "raise" THEN c
  ELSE IF c.out.raw = <<>> THEN Ret(c.b, None)
  ELSE IF all THEN buffer_all(c.b)
  ELSE buffer_to(c.b, need - Len(c.out.data))

\* EntityIO.buffer_all: the reader is there as long as the class is EntityIO
buffer_all(b) ==
  IF b.cls # "EntityIO" THEN Ret(b, None)
  ELSE buffer_next(buffer_chunk(b), TRUE, 0)

\* the loop of EntityIO.buffer_to
buffer_to(b, need) ==
  IF need <= 0 THEN Ret(b, None)
  ELSE buffer_next(buffer_chunk(b), FALSE, need)

\* EntityIO.buffer_to(size)
BufferTo(b, sz) ==
  IF b.cls # "EntityIO" THEN Ret(b, None)
  ELSE LET l == _fileobj_len(b)
       IN  IF l.out.kind = "raise" THEN l
           ELSE buffer_to(l.b, sz - l.out.n)

\* the end of EntityIO.read, g being how the buffering ended: the internal
\* file is read from the position of the buffer
read_fileobj(g, all, sz) ==
  IF g.out.kind = "raise" THEN g
  ELSE LET r == Wrap_read(Wrap_seek(g.b, g.b.pos, SEEK_SET).b, all, sz)
       IN  Ret([r.b EXCEPT !.pos = r.b.fpos], r.out)

\* EntityIO.read(size) that counts what it needs from the start of the entity
read_NeedFromStart(b, all, sz) ==
  IF IsDispatching(b) THEN Exc(b, "ReentrantDispatch")
  ELSE LET l == _fileobj_len(b)
           current_data_size == l.out.n
           need == Max(0, sz - current_data_size)
       IN  read_fileobj(IF all THEN buffer_all(l.b)
                        ELSE IF need # 0 THEN BufferTo(l.b, current_data_size + need)
                        ELSE Ret(l.b, None),
                        all, sz)

\* EntityIO.read(size); all is size None
read(b, all, sz) ==
  IF IsDispatching(b) THEN Exc(b, "ReentrantDispatch")
  ELSE LET l == _fileobj_len(b)
           current_data_size == l.out.n
           need == Max(0, b.pos + sz - current_data_size)
       IN  read_fileobj(IF all THEN buffer_all(l.b)
                        ELSE IF need # 0 THEN BufferTo(l.b, current_data_size + need)
                        ELSE Ret(l.b, None),
                        all, sz)

\* the end of EntityIO.seek, g being how the buffering ended
seek_fileobj(g, position, whence) ==
  IF g.out.kind = "raise" THEN g
  ELSE LET r == Wrap_seek(g.b, position, whence)
       IN  Ret([r.b EXCEPT !.pos = r.b.fpos], None)

\* EntityIO.seek(position, whence)
seek(b, position, whence) ==
  IF IsDispatching(b) THEN Exc(b, "ReentrantDispatch")
  ELSE IF whence \notin {SEEK_SET, SEEK_CUR, SEEK_END} THEN Exc(b, "ValueError")
  ELSE LET l == _fileobj_len(b)
           current_data_size == l.out.n
           need == IF whence = SEEK_CUR THEN Max(0, b.pos + position - current_data_size)
                   ELSE Max(0, position - current_data_size)
       IN  seek_fileobj(IF whence = SEEK_END THEN buffer_all(b)
                        ELSE IF need # 0 THEN BufferTo(l.b, current_data_size + need)
                        ELSE Ret(l.b, None),
                        position, whence)

\* the end of EntityIO.write, g being how buffer_all ended
write_fileobj(g, data) ==
  IF g.out.kind = "raise" THEN g
  ELSE LET r == Wrap_write(Wrap_seek(g.b, g.b.pos, SEEK_SET).b, data)
       IN  Ret([r.b EXCEPT !.pos = r.b.fpos], None)

\* EntityIO.write(data)
write(b, data) ==
  IF IsDispatching(b) THEN Exc(b, "ReentrantDispatch")
  ELSE write_fileobj(buffer_all(b), data)

\* the buffer and its reader as the variables hold them
Buffer ==
  [cls |-> io_class, store |-> store, fpos |-> fpos, pos |-> io_pos,
   started |-> buffering_started, disp |-> is_dispatching,
   f |-> fileobj, rpos |-> pos, fin |-> finished,
   res |-> result, reads |-> reads, dec |-> decoded, calls |-> calls, log |-> log]

Header(v) == [present |-> TRUE, value |-> v]

Decimal == <<"0", "1", "2", "3", "4", "5", "6", "7", "8", "9">>

\* str(n) and int(s), for the numbers of one digit
str(n) == Decimal[n + 1]

int(s) == CHOOSE n \in 0..9 : Decimal[n + 1] = s

\* MultiDict.__setitem__ on the values of one key: the last value is replaced,
\* a key that was not there gets the value
MultiDict_setlast(l, v) ==
  IF l = <<>> THEN <<v>> ELSE [l EXCEPT ![Len(l)] = v]

\* MultiDict.__delitem__ on the values of one key, under HeaderField.__delete__
\* which passes over the KeyError of a key that is not there: the last value
\* goes
MultiDict_dellast(l) ==
  IF l = <<>> THEN <<>> ELSE SubSeq(l, 1, Len(l) - 1)

\* MultiDict.__getitem__ under HeaderField.__get__: the last value of the key
MultiDict_getlast(l) ==
  IF l = <<>> THEN NoHeader ELSE Header(l[Len(l)])

\* HttpMessage._receive_entityio_dispatch, the receiver a message connects for
\* its buffer, at END_DATA (the call r converted the buffer): it disconnects
\* itself, drops _raw_fileobj and, adjust_entity_headers being set, assigns
\* the length of the buffered entity to content_length and deletes
\* transfer_encoding.  At RAW_DATA it passes the signal on and answers None
\* unless a receiver of the message vetoed.
_receive_entityio_dispatch(r) ==
  IF subscriber = "relay" /\ io_class = "EntityIO" /\ r.b.cls = "FilelikeWrap"
    THEN /\ subscriber' = "absent"
         /\ raw_fileobj' = FALSE
         /\ headers' = [headers EXCEPT
                          !.cl = MultiDict_setlast(@, str(Len(r.b.store))),
                          !.te = MultiDict_dellast(@)]
         /\ UNCHANGED <<msg_class, method, status_code, request_method>>
    ELSE UNCHANGED <<mvars, subscriber>>

\* a call on the buffer ending as r says
Apply(name, all, n, whence, r) ==
  /\ ops < MaxOps
  /\ ops' = ops + 1
  /\ op' = [name |-> name, all |-> all, n |-> n, whence |-> whence]
  /\ io_class' = r.b.cls
  /\ store' = r.b.store
  /\ fpos' = r.b.fpos
  /\ io_pos' = r.b.pos
  /\ buffering_started' = r.b.started
  /\ is_dispatching' = r.b.disp
  /\ fileobj' = r.b.f
  /\ pos' = r.b.rpos
  /\ finished' = r.b.fin
  /\ result' = r.b.res
  /\ reads' = r.b.reads
  /\ decoded' = r.b.dec
  /\ calls' = r.b.calls
  /\ log' = r.b.log
  /\ out' = r.out
  /\ _receive_entityio_dispatch(r)
  /\ UNCHANGED <<reader, size, payload, wellformed>>
  /\ UNCHANGED <<cvars, hvars, dvars>>

\* the sizes and positions the calls are made with
Sizes == 0..MaxPayload

Positions == (0 - 1)..MaxPayload

\* the last pair has a whence that is none of the three
Seeks == (Positions \X {SEEK_SET, SEEK_CUR, SEEK_END}) \cup {<<0, 3>>}

BufferChunk ==
  /\ io_class # "none"
  /\ wrote' = wrote
  /\ UNCHANGED svars
  /\ Apply("buffer_chunk", FALSE, 0, 0,
           IF io_class = "EntityIO" THEN buffer_chunk(Buffer)
           ELSE Exc(Buffer, "AttributeError"))

BufferAll ==
  /\ io_class # "none"
  /\ wrote' = wrote
  /\ UNCHANGED svars
  /\ Apply("buffer_all", FALSE, 0, 0,
           IF io_class = "EntityIO" THEN buffer_all(Buffer)
           ELSE Exc(Buffer, "AttributeError"))

BufferToSize ==
  /\ io_class # "none"
  /\ wrote' = wrote
  /\ UNCHANGED svars
  /\ \E sz \in Sizes :
       Apply("buffer_to", FALSE, sz, 0,
             IF io_class = "EntityIO" THEN BufferTo(Buffer, sz)
             ELSE Exc(Buffer, "AttributeError"))

ReadAllData ==
  /\ io_class # "none"
  /\ wrote' = wrote
  /\ UNCHANGED svars
  /\ Apply("read", TRUE, 0, 0,
           IF io_class = "EntityIO" THEN read(Buffer, TRUE, 0)
           ELSE Wrap_read(Buffer, TRUE, 0))

ReadSome ==
  /\ io_class # "none"
  /\ wrote' = wrote
  /\ UNCHANGED svars
  /\ \E sz \in Sizes :
       Apply("read", FALSE, sz, 0,
             IF io_class = "EntityIO" THEN read(Buffer, FALSE, sz)
             ELSE Wrap_read(Buffer, FALSE, sz))

Seek ==
  /\ io_class # "none"
  /\ wrote' = wrote
  /\ UNCHANGED svars
  /\ \E a \in Seeks :
       Apply("seek", FALSE, a[1], a[2],
             IF io_class = "EntityIO" THEN seek(Buffer, a[1], a[2])
             ELSE Wrap_seek(Buffer, a[1], a[2]))

Tell ==
  /\ io_class # "none"
  /\ wrote' = wrote
  /\ UNCHANGED svars
  /\ Apply("tell", FALSE, 0, 0,
           IF io_class = "EntityIO" THEN tell(Buffer) ELSE Wrap_tell(Buffer))

Write ==
  /\ io_class # "none"
  /\ LET r == IF io_class = "EntityIO" THEN write(Buffer, ReenterData)
              ELSE Wrap_write(Buffer, ReenterData)
     IN  /\ wrote' = (wrote \/ r.out.kind = "return")
         /\ Apply("write", FALSE, 0, 0, r)
  /\ UNCHANGED svars

(***************************************************************************)
(* The buffers the calls are made on.  The entity is a run of distinct     *)
(* bytes, so that a byte buffered twice or out of place shows.  The source *)
(* frames it for either reader; a chunked source is empty or of full       *)
(* length and may have lost its zero chunk, a declared length may be above *)
(* or below what the source holds.                                         *)
(* One receiver is connected for the buffer, or none.                      *)
(***************************************************************************)
Letters == <<"p", "q", "r", "s", "t", "u">>

Entities == {Take(Letters, n) : n \in 0..MaxPayload}

Subscribers ==
  {"absent", "none", "abort", "abort_once",
   "buffer_chunk", "read", "seek", "write", "tell"}

\* EntityIO(raw_fileobj, entity_size)
EntityIO ==
  /\ io_class = "EntityIO"
  /\ store = <<>>
  /\ fpos = 0
  /\ io_pos = 0
  /\ buffering_started = FALSE
  /\ is_dispatching = FALSE
  /\ pos = 0
  /\ finished = FALSE
  /\ result = [kind |-> "none"]
  /\ decoded = <<>>
  /\ calls = 0
  /\ reads = 0

InitBuffer ==
  /\ InitWith({"A"})
  /\ MessageIdle /\ HeadersIdle /\ DispatchIdle /\ SerialIdle
  /\ EntityIO
  /\ \E p \in Entities :
       \/ \E s \in Splits(Len(p)) :
            \/ /\ Len(p) \in {0, MaxPayload}
               /\ Construct(Const("ZERO_BYTE_CHUNK"), Chunked(p, s), p, TRUE)
            \/ /\ Len(p) = MaxPayload
               /\ Construct(Const("ZERO_BYTE_CHUNK"),
                            Take(Chunked(p, s), Len(Chunked(p, s)) - 5), p, FALSE)
       \/ Construct(Const("CONNECTION_CLOSE"), p, p, TRUE)
       \/ \E n \in 0..(MaxPayload + 1) :
            /\ Len(p) = MaxPayload
            /\ Construct(Length(n), p, Take(p, n), Len(p) >= n)
       \/ p = <<>> /\ Construct(Const("MULTIPART_BYTERANGE"), p, p, FALSE)
  /\ subscriber \in Subscribers
  /\ log = <<>>
  /\ out = [kind |-> "none"]
  /\ ops = 0
  /\ op = [name |-> "none", all |-> FALSE, n |-> 0, whence |-> 0]
  /\ wrote = FALSE

NextBuffer ==
  \/ BufferChunk
  \/ BufferAll
  \/ BufferToSize
  \/ ReadAllData
  \/ ReadSome
  \/ Seek
  \/ Tell
  \/ Write

SpecBuffer == InitBuffer /\ [][NextBuffer]_vars

(***************************************************************************)
(* The messages of message.py.  A message built from a file object reads   *)
(* its first line and its headers and wraps what follows in an EntityIO    *)
(* for the entity size its headers announce.  The header descriptors of    *)
(* _headerfield.py decode the header lines into Python values, which are   *)
(* records tagged with their type here, so that a comparison of a tuple    *)
(* with a string is what it is in Python.                                  *)
(***************************************************************************)
PyNone == [type |-> "NoneType", s |-> "", items |-> <<>>, n |-> 0]

PyStr(v) == [type |-> "str", s |-> v, items |-> <<>>, n |-> 0]

PyTuple(items) == [type |-> "tuple", s |-> "", items |-> items, n |-> 0]

PyInt(n) == [type |-> "int", s |-> "", items |-> <<>>, n |-> n]

\* the truth value of a Python value
Truth(v) ==
  CASE v.type = "str" -> v.s # ""
    [] v.type = "tuple" -> v.items # <<>>
    [] v.type = "int" -> v.n # 0
    [] OTHER -> FALSE

\* HeaderField.value_decode
HeaderField_decode(h) == IF h.present THEN PyStr(h.value) ELSE PyNone

\* IntegerHeaderField.value_decode
IntegerHeaderField_decode(h) == IF h.present THEN PyInt(int(h.value)) ELSE PyNone

\* ListHeaderField.value_decode: the tuple of the items that are not blank
\* (the header values used hold no comma)
ListHeaderField_decode(h) ==
  IF h.present THEN PyTuple(IF h.value = "" THEN <<>> ELSE <<h.value>>) ELSE PyNone

\* str.lower
Lower(v) == IF v = "Multipart/Byteranges" THEN "multipart/byteranges" ELSE v

\* HttpMessage.entity_size
HttpMessage_entity_size(m) ==
  LET transfer_encoding == ListHeaderField_decode(m.headers.te)
      content_length == IntegerHeaderField_decode(m.headers.cl)
      content_type == HeaderField_decode(m.headers.ct)
  IN  IF Truth(transfer_encoding) /\ transfer_encoding # PyStr("identity")
        THEN Const("ZERO_BYTE_CHUNK")
      ELSE IF content_length # PyNone THEN Length(content_length.n)
      ELSE IF Truth(content_type) /\ Lower(content_type.s) = "multipart/byteranges"
        THEN Const("MULTIPART_BYTERANGE")
      ELSE Const("CONNECTION_CLOSE")

\* RequestMessage.entity_size
RequestMessage_entity_size(m) ==
  IF m.method \in {"GET", "HEAD"} THEN Length(0) ELSE HttpMessage_entity_size(m)

\* ResponseMessage.entity_size
ResponseMessage_entity_size(m) ==
  LET code == m.status_code
  IN  IF (code >= 100 /\ code < 200) \/ code = 204 \/ code = 304 THEN Length(0)
      ELSE IF m.request_method \in {"HEAD"} THEN Length(0)
      ELSE HttpMessage_entity_size(m)

\* entity_size() of a message of either class
EntitySize(m) ==
  IF m.class = "RequestMessage" THEN RequestMessage_entity_size(m)
  ELSE ResponseMessage_entity_size(m)

\* the message as the variables hold it
Message ==
  [class |-> msg_class, method |-> method, status_code |-> status_code,
   request_method |-> request_method,
   headers |-> [te |-> MultiDict_getlast(headers.te),
                cl |-> MultiDict_getlast(headers.cl),
                ct |-> MultiDict_getlast(headers.ct)]]

\* ResponseMessage.request_method = value that never refreshes the buffer
SetRequestMethod_NoRefresh ==
  /\ msg_class = "ResponseMessage"
  /\ \E value \in {"GET", "HEAD"} :
       /\ request_method' = value
       /\ op' = [name |-> "set_request_method", all |-> FALSE, n |-> 0, whence |-> 0]
       /\ UNCHANGED <<io_class, store, fpos, io_pos, buffering_started, is_dispatching,
                      reader, size, pos, finished, result, decoded, calls, reads,
                      payload, wellformed, raw_fileobj>>
  /\ UNCHANGED <<fileobj, subscriber, log, out, ops, wrote>>
  /\ UNCHANGED <<msg_class, method, status_code, headers>>
  /\ UNCHANGED <<cvars, hvars, dvars, svars>>

\* _RequestMethod.__set__: the value is stored and _refresh_entity_size called,
\* which, when the buffer has not started buffering and _raw_fileobj is there,
\* calls set_fileobj(_raw_fileobj): a new EntityIO over the same file object
\* for the entity size the message has now, connected like the old one
SetRequestMethod ==
  /\ msg_class = "ResponseMessage"
  /\ \E value \in {"GET", "HEAD"} :
       LET entity_size == EntitySize([Message EXCEPT !.request_method = value])
       IN  /\ request_method' = value
           /\ op' = [name |-> "set_request_method", all |-> FALSE, n |-> 0, whence |-> 0]
           /\ IF ~buffering_started /\ raw_fileobj
                THEN /\ io_class' = "EntityIO"
                     /\ store' = <<>>
                     /\ fpos' = 0
                     /\ io_pos' = 0
                     /\ buffering_started' = FALSE
                     /\ is_dispatching' = FALSE
                     /\ reader' = EntityReader(entity_size)
                     /\ size' = entity_size.n
                     /\ pos' = 0
                     /\ finished' = FALSE
                     /\ result' = [kind |-> "none"]
                     /\ decoded' = <<>>
                     /\ calls' = 0
                     /\ reads' = 0
                     /\ payload' = IF entity_size.const = "int"
                                     THEN Take(fileobj, entity_size.n) ELSE payload
                     /\ wellformed' = IF entity_size.const = "int"
                                        THEN Len(fileobj) >= entity_size.n ELSE wellformed
                     /\ raw_fileobj' = TRUE
                ELSE UNCHANGED <<io_class, store, fpos, io_pos, buffering_started,
                                 is_dispatching, reader, size, pos, finished, result,
                                 decoded, calls, reads, payload, wellformed, raw_fileobj>>
  /\ UNCHANGED <<fileobj, subscriber, log, out, ops, wrote>>
  /\ UNCHANGED <<msg_class, method, status_code, headers>>
  /\ UNCHANGED <<cvars, hvars, dvars, svars>>

(***************************************************************************)
(* The messages the calls are made on: requests and responses with either  *)
(* combination of the three headers.  The sender has framed the body in    *)
(* one-byte chunks when it announced the chunked coding, and sent it plain *)
(* otherwise.                                                              *)
(***************************************************************************)
Methods == {"GET", "HEAD", "POST"}

Statuses == {100, 199, 200, 204, 304}

TransferEncodings == {<<>>, <<"identity">>, <<"chunked">>, <<"gzip", "chunked">>}

ContentLengths == {<<>>, <<"0">>, <<"2">>, <<"2", "0">>}

ContentTypes == {<<>>, <<"Multipart/Byteranges">>, <<"text/html">>}

Body == Take(Letters, MaxPayload)

\* HttpMessage.__init__(fileobj=...): the class by the first line, the headers,
\* then set_fileobj on what follows them
InitMessage ==
  /\ InitWith({"A"})
  /\ EntityIO
  /\ msg_class \in {"RequestMessage", "ResponseMessage"}
  /\ method \in Methods
  /\ status_code \in Statuses
  /\ msg_class = "RequestMessage" => status_code = 200
  /\ msg_class = "ResponseMessage" => method = "GET"
  /\ request_method = "None"
  /\ headers \in [te : TransferEncodings, cl : ContentLengths, ct : ContentTypes]
  /\ raw_fileobj = TRUE
  /\ HeadersIdle
  /\ SerialIdle
  /\ DispatchIdle
  /\ LET entity_size == EntitySize(Message)
         chunked == Message.headers.te = Header("chunked")
         f == IF chunked THEN Chunked(Body, [i \in 1..Len(Body) |-> 1]) ELSE Body
     IN  CASE entity_size.const = "int" ->
                Construct(entity_size, f, Take(f, entity_size.n), Len(f) >= entity_size.n)
           [] entity_size.const = "ZERO_BYTE_CHUNK" ->
                Construct(entity_size, f, Body, chunked)
           [] entity_size.const = "CONNECTION_CLOSE" ->
                Construct(entity_size, f, f, TRUE)
           [] OTHER -> Construct(entity_size, f, f, FALSE)
  /\ subscriber = "relay"
  /\ log = <<>>
  /\ out = [kind |-> "none"]
  /\ ops = 0
  /\ op = [name |-> "none", all |-> FALSE, n |-> 0, whence |-> 0]
  /\ wrote = FALSE

NextMessage ==
  \/ SetRequestMethod
  \/ BufferChunk
  \/ BufferAll
  \/ ReadSome
  \/ ReadAllData

SpecMessage == InitMessage /\ [][NextMessage]_vars

(***************************************************************************)
(* C22: a buffer_chunk call on a streaming buffer whose reader has a chunk *)
(* to give pulls exactly one readchunk result, appends the decoded bytes   *)
(* of that result at the end of the internal store, and publishes one      *)
(* RAW_DATA notification whose sender is the buffer and whose info is the  *)
(* raw bytes of that result.                                               *)
(***************************************************************************)
BufferChunkCall == op'.name = "buffer_chunk" /\ ops' = ops + 1 /\ io_class = "EntityIO"

C22_BufferChunkPullsAppendsPublishes ==
  [][LET o == Readchunk(fileobj, pos, finished)
     IN  (BufferChunkCall /\ o.result.kind = "return" /\ o.result.raw # <<>>) =>
           /\ calls' = calls + 1
           /\ result' = o.result
           /\ fileobj' = o.fileobj
           /\ store' = store \o o.result.data
           /\ Len(log') = Len(log) + 1
           /\ log'[Len(log')].signal = "RAW_DATA"
           /\ log'[Len(log')].sender = "buffer"
           /\ log'[Len(log')].info = o.result.raw]_vars

\* the second one-byte chunk of a chunked entity has been buffered and published
C22_Witness ==
  /\ op.name = "buffer_chunk"
  /\ ops = 2
  /\ out.kind = "return"
  /\ reader = "ChunkedEntityReader"
  /\ store = <<"p", "q">>
  /\ Len(log) = 2
  /\ log[2].signal = "RAW_DATA"
  /\ log[2].info = <<"1", CR, LF, "q", CR, LF>>

(***************************************************************************)
(* C23: when a receiver called for a RAW_DATA notification of the buffer   *)
(* answers ABORT, the call that published it (buffer_chunk, or the read,   *)
(* seek, write, buffer_to or buffer_all that called buffer_chunk) fails    *)
(* with BufferingAbort, and nothing is read after the vetoed chunk.        *)
(***************************************************************************)
Vetoed(e) == e.signal = "RAW_DATA" /\ e.inner.kind = "return" /\ e.inner.data = <<"ABORT">>

C23_AbortFailsTheCall ==
  [][(\E i \in (Len(log) + 1)..Len(log') : Vetoed(log'[i])) =>
       /\ out' = Raises("BufferingAbort")
       /\ Vetoed(log'[Len(log')])
       /\ \A i \in (Len(log) + 1)..(Len(log') - 1) : ~Vetoed(log'[i])]_vars

\* a seek that had to buffer a chunk was vetoed, after an earlier call that
\* had published a chunk; the vetoed chunk is in the store
C23_Witness ==
  /\ op.name = "seek"
  /\ out = Raises("BufferingAbort")
  /\ Len(log) = 2
  /\ Vetoed(log[2])
  /\ Len(store) > 0

(***************************************************************************)
(* C24: END_DATA is published before the buffer changes its class: every   *)
(* END_DATA notification finds the buffer still of class EntityIO.         *)
(***************************************************************************)
C24_EndDataBeforeConversion ==
  \A i \in 1..Len(log) : log[i].signal = "END_DATA" => log[i].cls = "EntityIO"

(***************************************************************************)
(* C25: the change of class is one-way.  No call on a buffer of class      *)
(* FilelikeWrap changes its class back, makes the reader read, or          *)
(* publishes a notification; and END_DATA is published at most once, after *)
(* every RAW_DATA: an END_DATA entry is always the last of the log.        *)
(***************************************************************************)
C25_ConversionOneWay ==
  [][/\ io_class = "FilelikeWrap" =>
          /\ io_class' = "FilelikeWrap"
          /\ calls' = calls
          /\ fileobj' = fileobj
          /\ log' = log
     /\ \A i \in 1..Len(log') : log'[i].signal = "END_DATA" => i = Len(log')]_vars

\* a write on a buffer that an earlier call had converted (the cursor of the
\* EntityIO is left where the conversion found it)
C25_Witness ==
  /\ io_class = "FilelikeWrap"
  /\ op.name = "write"
  /\ wrote
  /\ fpos # io_pos
  /\ Len(log) >= 2
  /\ log[Len(log)].signal = "END_DATA"

(***************************************************************************)
(* C26: a receiver that, called for a RAW_DATA notification of the buffer, *)
(* calls buffer_chunk, read, seek, write or tell on that buffer gets       *)
(* ReentrantDispatch from the inner call, and the inner call leaves the    *)
(* store and the cursor of the buffer as they were.                        *)
(***************************************************************************)
Reentering == {"buffer_chunk", "read", "seek", "write", "tell"}

C26_ReentryFails ==
  \A i \in 1..Len(log) :
    (log[i].signal = "RAW_DATA" /\ subscriber \in Reentering) =>
      /\ log[i].inner = Raises("ReentrantDispatch")
      /\ log[i].after = <<log[i].store, log[i].pos>>

(***************************************************************************)
(* C27: on a buffer over a well-framed source that has not been written    *)
(* to, a read(n) that returns with the cursor at p returns the bytes       *)
(* p .. min(p + n, total) - 1 of the entity (all from p when n is None)    *)
(* and moves the cursor on by the number of bytes returned, whatever calls *)
(* came before and however the reader cut the entity into chunks.          *)
(***************************************************************************)
Cursor == IF io_class = "EntityIO" THEN io_pos ELSE fpos

ReadCall == op'.name = "read" /\ ops' = ops + 1 /\ out'.kind = "return"

C27_ReadReturnsSlice ==
  [][(ReadCall /\ wellformed /\ ~wrote) =>
       LET p == Cursor
           hi == IF op'.all THEN Len(payload) ELSE Min(p + op'.n, Len(payload))
       IN  /\ out'.data = SubSeq(payload, p + 1, hi)
           /\ (IF io_class' = "EntityIO" THEN io_pos' ELSE fpos') = p + Len(out'.data)]_vars

\* with the cursor left at 1 by the call before, a read(2) over three
\* one-byte chunks
C27_Witness ==
  /\ op.name = "read"
  /\ op.n = 2
  /\ ops = 2
  /\ out.kind = "return"
  /\ out.data = <<"q", "r">>
  /\ reader = "ChunkedEntityReader"
  /\ calls = 3
  /\ Cursor = 3

(***************************************************************************)
(* C28: no byte of the source is buffered twice.  As long as the buffer is *)
(* of class EntityIO, and after that until it is written to, the internal  *)
(* store is the decoded chunks the reader has given, each once and in      *)
(* order, and so a prefix of the entity: also after seeks backwards,       *)
(* repeated reads and a vetoed buffer_chunk.                               *)
(***************************************************************************)
C28_StoreIsPrefixOfEntity ==
  (io_class = "EntityIO" \/ (io_class = "FilelikeWrap" /\ ~wrote)) =>
    /\ store = decoded
    /\ Len(store) <= Len(payload)
    /\ store = SubSeq(payload, 1, Len(store))

\* the first chunk was vetoed, the next call buffered the rest of the entity
C28_Witness ==
  /\ io_class = "EntityIO"
  /\ subscriber = "abort_once"
  /\ ops = 2
  /\ Len(log) >= 2
  /\ Vetoed(log[1])
  /\ out.kind = "return"
  /\ Len(store) = MaxPayload
  /\ store = payload

(***************************************************************************)
(* C29: entity_size() of a message is what the decision table gives for    *)
(* its class, method, status, request method and headers: zero for a GET   *)
(* or HEAD request, for a response with status 1xx, 204 or 304 and for a   *)
(* response to HEAD; otherwise chunked when Transfer-Encoding is there and *)
(* is not "identity", else the Content-Length when there is one, else      *)
(* multipart when the Content-Type is multipart/byteranges, else           *)
(* until-close.                                                            *)
(***************************************************************************)
DecisionTable ==
  IF msg_class = "RequestMessage" /\ method \in {"GET", "HEAD"} THEN Length(0)
  ELSE IF msg_class = "ResponseMessage"
          /\ ((status_code >= 100 /\ status_code < 200) \/ status_code \in {204, 304})
    THEN Length(0)
  ELSE IF msg_class = "ResponseMessage" /\ request_method = "HEAD" THEN Length(0)
  ELSE IF headers.te # <<>> /\ headers.te[Len(headers.te)] # "identity" THEN Const("ZERO_BYTE_CHUNK")
  ELSE IF headers.cl # <<>> THEN Length(int(headers.cl[Len(headers.cl)]))
  ELSE IF headers.ct # <<>> /\ Lower(headers.ct[Len(headers.ct)]) = "multipart/byteranges"
    THEN Const("MULTIPART_BYTERANGE")
  ELSE Const("CONNECTION_CLOSE")

C29_EntitySizeDecisionTable == EntitySize(Message) = DecisionTable

(***************************************************************************)
(* C30: setting the request method of a response computes entity_size()    *)
(* anew and, when the buffer has not started buffering, replaces the       *)
(* buffer by a new EntityIO over the same file object for that size; when  *)
(* buffering has started, the buffer, its reader, its store and its cursor *)
(* stay as they are.                                                       *)
(***************************************************************************)
C30_RequestMethodRefreshesBuffer ==
  [][op'.name = "set_request_method" =>
       /\ fileobj' = fileobj
       /\ IF ~buffering_started
            THEN /\ reader' = EntityReader(EntitySize(Message'))
                 /\ size' = EntitySize(Message').n
                 /\ io_class' = "EntityIO"
                 /\ ~buffering_started'
                 /\ store' = <<>>
                 /\ io_pos' = 0
                 /\ pos' = 0
            ELSE UNCHANGED <<io_class, reader, size, store, fpos, io_pos, pos, finished,
                             buffering_started>>]_vars

\* a response that announced two bytes turned out to answer a HEAD request:
\* its buffer now reads no entity
C30_Witness ==
  /\ op.name = "set_request_method"
  /\ request_method = "HEAD"
  /\ status_code = 200
  /\ headers.te = <<>>
  /\ headers.cl = <<"2">>
  /\ reader = "NullEntityReader"
  /\ io_class = "EntityIO"
  /\ ~buffering_started

(***************************************************************************)
(***************************************************************************)
(* The header multimap (_multidict.py, _headers.py) and the descriptors of *)
(* _headerfield.py.  _data maps a key to the list of its values; Headers   *)
(* runs header_case on the key argument of every method of MultiDict that  *)
(* has one and sorts what iteritems yields.  Keys and values are strings,  *)
(* here sequences of characters, compared as Python compares str.          *)
(***************************************************************************)
MaxHeaderOps == 3

HeaderChars == <<"-", "1", "2", "A", "E", "I", "T", "V", "X", "a", "e", "i", "t", "v", "x">>

\* ord(c), as far as the order goes
Ord(c) == CHOOSE i \in 1..Len(HeaderChars) : HeaderChars[i] = c

\* str.upper and str.lower of one character
Upper(c) ==
  CASE c = "a" -> "A" [] c = "e" -> "E" [] c = "i" -> "I" [] c = "t" -> "T"
    [] c = "v" -> "V" [] c = "x" -> "X" [] OTHER -> c

LowerChar(c) ==
  CASE c = "A" -> "a" [] c = "E" -> "e" [] c = "I" -> "i" [] c = "T" -> "t"
    [] c = "V" -> "v" [] c = "X" -> "x" [] OTHER -> c

RECURSIVE Capitalized(_, _)
\* "-".join of the capitalized parts of the rest of a key, first saying that
\* a part starts here
Capitalized(s, first) ==
  IF s = <<>> THEN <<>>
  ELSE IF s[1] = "-" THEN <<"-">> \o Capitalized(Tail(s), TRUE)
  ELSE <<IF first THEN Upper(s[1]) ELSE LowerChar(s[1])>> \o Capitalized(Tail(s), FALSE)

\* header_case(header_key)
header_case(header_key) == Capitalized(header_key, TRUE)

RECURSIVE StrLess(_, _)
\* a < b for two str
StrLess(a, b) ==
  IF b = <<>> THEN FALSE
  ELSE IF a = <<>> THEN TRUE
  ELSE IF a[1] = b[1] THEN StrLess(Tail(a), Tail(b))
  ELSE Ord(a[1]) < Ord(b[1])

\* x <= y for two tuples (key, value)
ItemLessEq(x, y) ==
  \/ StrLess(x[1], y[1])
  \/ x[1] = y[1] /\ (x[2] = y[2] \/ StrLess(x[2], y[2]))

RECURSIVE InsertSorted(_, _)
\* the sorted list s with x put in after the items that are not above it
InsertSorted(x, s) ==
  IF s = <<>> THEN <<x>>
  ELSE IF ItemLessEq(s[1], x) THEN <<s[1]>> \o InsertSorted(x, Tail(s))
  ELSE <<x>> \o s

RECURSIVE sorted(_)
\* sorted(iterable) of tuples (key, value): a stable sort
sorted(s) ==
  IF s = <<>> THEN <<>>
  ELSE InsertSorted(s[Len(s)], sorted(SubSeq(s, 1, Len(s) - 1)))

\* what a call on the mapping ends with: the _data it leaves and the exception
\* it raised, if any
HRet(d) == [d |-> d, exc |-> "none"]

HExc(d, e) == [d |-> d, exc |-> e]

\* MultiDict.__setitem__
MultiDict_setitem(d, k, value) ==
  IF k \in DOMAIN d
    THEN HRet([d EXCEPT ![k] = [@ EXCEPT ![Len(@)] = value]])
    ELSE HRet([x \in DOMAIN d \cup {k} |-> IF x = k THEN <<value>> ELSE d[x]])

\* MultiDict.__delitem__: self._data[key] raises KeyError for a key that is not
\* there, del of the last item of an empty list raises IndexError
MultiDict_delitem(d, k) ==
  IF k \notin DOMAIN d THEN HExc(d, "KeyError")
  ELSE IF d[k] = <<>> THEN HExc(d, "IndexError")
  ELSE IF Len(d[k]) = 1 THEN HRet([x \in DOMAIN d \ {k} |-> d[x]])
  ELSE HRet([d EXCEPT ![k] = SubSeq(@, 1, Len(@) - 1)])

\* MultiDict.delall
MultiDict_delall(d, k) ==
  IF k \notin DOMAIN d THEN HExc(d, "KeyError")
  ELSE HRet([x \in DOMAIN d \ {k} |-> d[x]])

\* MultiDict.delitem_at
MultiDict_delitem_at(d, k, index) ==
  IF k \notin DOMAIN d THEN HExc(d, "KeyError")
  ELSE IF index >= Len(d[k]) THEN HExc(d, "IndexError")
  ELSE HRet([d EXCEPT ![k] = SubSeq(@, 1, index) \o SubSeq(@, index + 2, Len(@))])

\* MultiDict.append_at
MultiDict_append_at(d, k, value) ==
  IF k \in DOMAIN d
    THEN HRet([d EXCEPT ![k] = Append(@, value)])
    ELSE HRet([x \in DOMAIN d \cup {k} |-> IF x = k THEN <<value>> ELSE d[x]])

\* HeaderField.__delete__, for the descriptor of the header named header
HeaderField_delete_Reraises(d, header) == MultiDict_delitem(d, header_case(header))

HeaderField_delete(d, header) ==
  IF MultiDict_delitem(d, header_case(header)).exc = "KeyError" THEN HRet(d)
  ELSE MultiDict_delitem(d, header_case(header))

RECURSIVE MultiDict_iteritems(_, _)
\* MultiDict.iteritems: for k in self._data: for v in self._data[k]: yield k, v;
\* ks is the keys still to come, in the order the dict gives them
MultiDict_iteritems(d, ks) ==
  IF ks = <<>> THEN <<>>
  ELSE [i \in 1..Len(d[ks[1]]) |-> <<ks[1], d[ks[1]][i]>>] \o MultiDict_iteritems(d, Tail(ks))

RECURSIVE ListOf(_)
\* the members of a set in some order
ListOf(S) ==
  IF S = {} THEN <<>>
  ELSE <<CHOOSE x \in S : TRUE>> \o ListOf(S \ {CHOOSE x \in S : TRUE})

\* Headers.iteritems: iter(sorted(super(Headers, self).iteritems()))
Headers_iteritems(d) == sorted(MultiDict_iteritems(d, ListOf(DOMAIN d)))

\* the header lines of HttpMessage.str_head: "%s: %s" % (k, str(v)) for k, v in
\* sorted(self.items()), items being those of Headers
str_head(d) ==
  [i \in 1..Len(sorted(Headers_iteritems(d))) |->
     sorted(Headers_iteritems(d))[i][1] \o <<":", " ">>
       \o sorted(Headers_iteritems(d))[i][2]]

\* a call on the Headers object ending as r says
HeadersCall(name, k, value, index, r) ==
  /\ hops' = hops + 1
  /\ hop' = [name |-> name, key |-> k, value |-> value, index |-> index]
  /\ hdata' = r.d
  /\ hout' = r.exc
  /\ UNCHANGED <<cvars, rvars, bvars, mvars, dvars, svars>>

\* the keys the calls are made with, in either case, and the values
HeaderKeys == {<<"T", "E">>, <<"t", "e">>, <<"V", "i", "a">>, <<"v", "I", "A">>,
               <<"x", "-", "a">>}

HeaderValues == {<<"1">>, <<"2">>}

SetItem ==
  /\ hops < MaxHeaderOps
  /\ \E k \in HeaderKeys, v \in HeaderValues :
       HeadersCall("__setitem__", k, v, 0, MultiDict_setitem(hdata, header_case(k), v))

DelItem ==
  /\ hops < MaxHeaderOps
  /\ \E k \in HeaderKeys :
       HeadersCall("__delitem__", k, <<>>, 0, MultiDict_delitem(hdata, header_case(k)))

DelAll ==
  /\ hops < MaxHeaderOps
  /\ \E k \in HeaderKeys :
       HeadersCall("delall", k, <<>>, 0, MultiDict_delall(hdata, header_case(k)))

DelItemAt ==
  /\ hops < MaxHeaderOps
  /\ \E k \in HeaderKeys, index \in 0..1 :
       HeadersCall("delitem_at", k, <<>>, index,
                   MultiDict_delitem_at(hdata, header_case(k), index))

AppendAt ==
  /\ hops < MaxHeaderOps
  /\ \E k \in HeaderKeys, v \in HeaderValues :
       HeadersCall("append_at", k, v, 0, MultiDict_append_at(hdata, header_case(k), v))

\* del message.via, del message.te: the descriptors Via and TE
DeleteField ==
  /\ hops < MaxHeaderOps
  /\ \E header \in {<<"V", "i", "a">>, <<"T", "E">>} :
       HeadersCall("__delete__", header, <<>>, 0, HeaderField_delete(hdata, header))

\* Headers()
InitHeaders ==
  /\ InitWith({"A"})
  /\ ReaderIdle
  /\ BufferIdle
  /\ MessageIdle
  /\ HeadersIdle
  /\ SerialIdle
  /\ DispatchIdle

NextHeaders ==
  \/ SetItem
  \/ DelItem
  \/ DelAll
  \/ DelItemAt
  \/ AppendAt
  \/ DeleteField

SpecHeaders == InitHeaders /\ [][NextHeaders]_vars

(***************************************************************************)
(* C33: deleting a key that the multimap does not hold, with del on the    *)
(* mapping or through a header descriptor, raises nothing and leaves every *)
(* key and value as it was.                                                *)
(***************************************************************************)
C33_DeleteAbsentIsNoOp ==
  [][(/\ hops' = hops + 1
      /\ hop'.name \in {"__delitem__", "__delete__"}
      /\ header_case(hop'.key) \notin DOMAIN hdata) =>
       /\ hout' = "none"
       /\ hdata' = hdata]_vars

\* the keys of the mapping in the order of sorted()
KeysInOrder(d) ==
  [i \in 1..Cardinality(DOMAIN d) |->
     sorted([j \in 1..Cardinality(DOMAIN d) |-> <<ListOf(DOMAIN d)[j], <<>>>>])[i][1]]

(***************************************************************************)
(* C34: the header lines of the serialization are one line per stored     *)
(* value, the keys in sorted order, and the values of one key in the order *)
(* in which they were put in.                                              *)
(***************************************************************************)
C34_LinesByKeyValuesInInsertionOrder ==
  str_head(hdata) =
    [i \in 1..Len(MultiDict_iteritems(hdata, KeysInOrder(hdata))) |->
       MultiDict_iteritems(hdata, KeysInOrder(hdata))[i][1] \o <<":", " ">>
         \o MultiDict_iteritems(hdata, KeysInOrder(hdata))[i][2]]

(***************************************************************************)
(* The dispatcher of dispatch.py.  _connections maps id(signal) and        *)
(* id(sender) to a set of weak references to receivers; it is held here as *)
(* the set of the triples (signal, sender, receiver) connected.  A         *)
(* receiver is a function or a bound method; it answers None or ABORT, or  *)
(* raises.  The signals and senders are objects that stay alive.           *)
(***************************************************************************)
MaxDispatchOps == 4

Receivers == {"returns", "aborts", "raises"}

\* what a call of the receiver gives: its return value, or the exception it
\* raised
Answer(r) ==
  CASE r = "returns" -> "None"
    [] r = "aborts" -> "ABORT"
    [] OTHER -> "Exception"

\* the receivers send collects: those of the paths matching its only path
send_receivers_ExactPath(signal, sender) ==
  {c[3] : c \in {x \in connections : x[1] = signal /\ x[2] = sender}}

\* the receivers send collects from the paths (signal or ANY, sender or ANY)
send_receivers(signal, sender) ==
  {c[3] : c \in {x \in connections : x[1] \in {signal, "ANY"} /\ x[2] \in {sender, "ANY"}}}

\* the orders in which a set may be iterated
Orders(S) ==
  {f \in [1..Cardinality(S) -> S] : \A i, j \in 1..Cardinality(S) : i # j => f[i] # f[j]}

RECURSIVE Collected(_)
\* the responses of send for the receivers in the order of iteration: a
\* reference that is dead gives no response
Collected(order) ==
  IF order = <<>> THEN <<>>
  ELSE IF order[1] \in live THEN <<Answer(order[1])>> \o Collected(Tail(order))
  ELSE Collected(Tail(order))

\* dispatch.disconnect(receiver, signal, sender): what stays connected
disconnect(receiver, signal, sender) ==
  {c \in connections :
     ~ /\ signal = "ALL" \/ c[1] = signal
       /\ sender = "ALL" \/ c[2] = sender
       /\ receiver = "ALL" \/ c[3] \notin live \/ c[3] = receiver}

DispatchCall(name, receiver, signal, sender) ==
  /\ dops' = dops + 1
  /\ dop' = [name |-> name, receiver |-> receiver, signal |-> signal, sender |-> sender]
  /\ UNCHANGED <<cvars, rvars, bvars, mvars, hvars, svars>>

\* dispatch.connect(receiver, signal, sender)
Connect ==
  /\ dops < MaxDispatchOps
  /\ \E receiver \in live, signal \in {"RAW_DATA", "ANY"}, sender \in {"s1", "ANY"} :
       /\ connections' = connections \cup {<<signal, sender, receiver>>}
       /\ DispatchCall("connect", receiver, signal, sender)
  /\ UNCHANGED <<live, invoked, responses>>

\* dispatch.disconnect(receiver, signal, sender)
Disconnect ==
  /\ dops < MaxDispatchOps
  /\ \E receiver \in live \cup {"ALL"}, signal \in {"RAW_DATA", "ALL"},
        sender \in {"s1", "ALL"} :
       /\ connections' = disconnect(receiver, signal, sender)
       /\ DispatchCall("disconnect", receiver, signal, sender)
  /\ UNCHANGED <<live, invoked, responses>>

\* the last reference to a receiver goes: the weak references to it are dead
Collect ==
  /\ dops < MaxDispatchOps
  /\ \E receiver \in live :
       /\ live' = live \ {receiver}
       /\ DispatchCall("del", receiver, "none", "none")
  /\ UNCHANGED <<connections, invoked, responses>>

\* dispatch.send(signal, sender, info): the receivers are called in the order
\* the set gives them; a dead reference is disconnected
Send ==
  /\ dops < MaxDispatchOps
  /\ \E signal \in {"RAW_DATA", "END_DATA"}, sender \in {"s1", "s2"} :
       /\ \E order \in Orders(send_receivers(signal, sender)) :
            responses' = Collected(order)
       /\ invoked' = send_receivers(signal, sender) \cap live
       /\ connections' = IF send_receivers(signal, sender) \subseteq live THEN connections
                         ELSE {c \in connections : c[3] \in live}
       /\ DispatchCall("send", "none", signal, sender)
  /\ UNCHANGED live

InitDispatch ==
  /\ InitWith({"A"})
  /\ ReaderIdle
  /\ BufferIdle
  /\ MessageIdle
  /\ HeadersIdle
  /\ SerialIdle
  /\ connections = {}
  /\ live = Receivers
  /\ invoked = {}
  /\ responses = <<>>
  /\ dop = [name |-> "none", receiver |-> "none", signal |-> "none", sender |-> "none"]
  /\ dops = 0

NextDispatch ==
  \/ Connect
  \/ Disconnect
  \/ Collect
  \/ Send

SpecDispatch == InitDispatch /\ [][NextDispatch]_vars

(***************************************************************************)
(* C32: send(signal, sender, info) calls the live receivers connected on   *)
(* one of the paths (signal or ANY, sender or ANY), each once, calls no    *)
(* receiver that is connected on other paths only, and returns one value   *)
(* for each receiver it called.                                            *)
(***************************************************************************)
C32_SendInvokesMatchingPaths ==
  [][(dop'.name = "send" /\ dops' = dops + 1) =>
       /\ invoked' = {r \in live :
                        \E sig \in {dop'.signal, "ANY"}, snd \in {dop'.sender, "ANY"} :
                          <<sig, snd, r>> \in connections}
       /\ Len(responses') = Cardinality(invoked')
       /\ \A r \in invoked' : \E i \in 1..Len(responses') : responses'[i] = Answer(r)]_vars

\* a send of END_DATA for sender s2 has called the receiver connected for any
\* signal and any sender, once, and not the one connected for RAW_DATA of s1
C32_Witness ==
  /\ dop.name = "send"
  /\ dop.signal = "END_DATA"
  /\ dop.sender = "s2"
  /\ <<"ANY", "ANY", "aborts">> \in connections
  /\ <<"RAW_DATA", "s1", "returns">> \in connections
  /\ invoked = {"aborts"}
  /\ responses = <<"ABORT">>

(***************************************************************************)
C39_ReadersStayWithinEntity ==
  [][(reader \in {"SimpleEntityReader", "NullEntityReader"} /\ calls' = calls + 1) =>
      /\ fileobj = SubSeq(decoded', Len(decoded) + 1, Len(decoded')) \o fileobj'
      /\ Len(decoded') <= size
      /\ reader = "NullEntityReader" => fileobj' = fileobj /\ reads' = reads /\ decoded' = <<>>]_vars

\* a fixed-length entity of more than one read has been delivered whole, the
\* terminal result returned, and the byte that follows it is still on the source
C39_Witness ==
  /\ reader = "SimpleEntityReader"
  /\ size = MaxPayload
  /\ result = Terminal
  /\ Len(decoded) = size
  /\ calls >= 3
  /\ fileobj = <<"x">>

\* a seek(k, SEEK_CUR) on a streaming buffer that returned, k not leading
\* below the start of the entity
SeekCurCall ==
  /\ io_class = "EntityIO"
  /\ op'.name = "seek"
  /\ op'.whence = SEEK_CUR
  /\ ops' = ops + 1
  /\ out'.kind = "return"
  /\ io_pos + op'.n >= 0

(***************************************************************************)
(* C38: a seek(k, SEEK_CUR) on a buffer of class EntityIO leaves tell()    *)
(* at the tell() before the call plus k, however many bytes are buffered   *)
(* beyond the cursor; and a read that follows it on a well-framed source   *)
(* returns the bytes of the entity from the position tell() then gives.    *)
(***************************************************************************)
C38_SeekCurFromCursor ==
  [][/\ SeekCurCall => Cursor' = io_pos + op'.n
     /\ (op.name = "seek" /\ op.whence = SEEK_CUR /\ ReadCall /\ wellformed /\ ~wrote) =>
          out'.data = SubSeq(payload, Cursor + 1,
                             IF op'.all THEN Len(payload)
                             ELSE Min(Cursor + op'.n, Len(payload)))]_vars


(***************************************************************************)
(* C40: once the entity of a message is fully buffered, END_DATA having    *)
(* been delivered to the relay of the message, the Content-Length of the   *)
(* message is the number of decoded body bytes, the message has no         *)
(* Transfer-Encoding header, the relay is no longer connected and the      *)
(* cursor of the body is where it was when END_DATA was sent.              *)
(***************************************************************************)
EndDataDelivered ==
  \E i \in 1..Len(log) : log[i].signal = "END_DATA" /\ log[i].received

C40_HeadersAdjustedAtEndData ==
  EndDataDelivered =>
    /\ headers.cl # <<>>
    /\ headers.cl[Len(headers.cl)] = str(Len(decoded))
    /\ headers.te = <<>>
    /\ subscriber = "absent"
    /\ \A i \in 1..Len(log) :
         log[i].signal = "END_DATA" => log[i].cursor[1] = log[i].cursor[2]


(***************************************************************************)
(* C37: a response that redirects to the fingerprint being fetched is      *)
(* never stored as READY: the step that fetched it leaves the cache file   *)
(* of the fingerprint absent and redirect_map without an entry for it and  *)
(* goes on to the send without saving; no cache file ever holds a response *)
(* that redirects to its own fingerprint; and when the handler returns the *)
(* response has been sent to its client, redirect_map has no entry for the *)
(* fingerprint and working holds the path no more often than there are     *)
(* other handlers still in a claim of that fingerprint.                    *)
(***************************************************************************)
\* the step in which the fetch of h brought a redirect to h's own fingerprint
SelfRedirectFetched(h) ==
  /\ cpc[h] = "fetch"
  /\ response'[h] # Nothing
  /\ response'[h].loc = key[h]

\* the step with which h returns having sent such a response
SelfRedirectReturn(h) ==
  /\ Claimed(h)
  /\ pc'[h] = "done"
  /\ sent'[h] # Nothing /\ sent'[h].via = "origin"
  /\ sent'[h].bytes.loc = key[h]

StoredSelfRedirect(k) == files[k].kind = "resp" /\ files[k].loc = k

C37_SelfRedirectNotStored ==
  [][/\ \A k \in Keys : ~StoredSelfRedirect(k)'
     /\ \A h \in Handlers :
          /\ SelfRedirectFetched(h) =>
               /\ files'[key[h]] = Absent
               /\ redirect_map'[key[h]] = NoKey
               /\ cpc'[h] = "send"
          /\ SelfRedirectReturn(h) =>
               /\ sent'[h].bytes = Resp(key[h], key[h])
               /\ redirect_map'[key[h]] = NoKey
               /\ working'[key[h]] <=
                    Cardinality({g \in Handlers \ {h} :
                                   key[g] = key[h] /\ pc'[g] \in ClaimPositions})]_vars


(***************************************************************************)
(* C35: the staleness cleanup of a waiter removes only the stale           *)
(* placeholder it examined: the file its rm deletes is a placeholder whose *)
(* timestamp is stale (or is already gone), never a stored response and    *)
(* never a placeholder that another handler wrote or is writing since.     *)
(***************************************************************************)
\* the step in which h runs the rm of its staleness cleanup
StaleCleanupStep(h) == pc[h] = "rm_stale" /\ pc'[h] = "open"

C35_StaleCleanupRemovesOnlyStale ==
  [][\A h \in Handlers :
       StaleCleanupStep(h) =>
         LET c == files[key[h]]
         IN  \/ c = Absent
             \/ c.kind = "ph" /\ Stale([day |-> c.day, min |-> c.min], now)]_vars


(***************************************************************************)
(* C36: in the in-memory variant every acquisition of the lock is followed *)
(* by a release on every path: the lock is held only by a handler that is  *)
(* between its acquire and the release that its code reaches next, never   *)
(* by a handler that has returned and never by a handler that is about to  *)
(* acquire it again, so that no handler waits for the lock for ever.       *)
(***************************************************************************)
\* the positions between lock.acquire() of cache_or_request and its release
LockedPositions == {"test", "claim", "ph_echo", "ph_date"}

C36_LockAlwaysReleased ==
  \A h \in Handlers : lock = h => pc[h] \in LockedPositions


(***************************************************************************)
(* Serializing a message and parsing the serialization (message.py).       *)
(* str(message) rewinds the body, reads it to its end, which buffers what  *)
(* is left of the entity and lets the relay adjust the headers, and then   *)
(* writes the first line, one line per header item in the sorted order of  *)
(* the items, a blank line and the body.  HttpMessage(fileobj=...) of such *)
(* a serialization takes the class, method and status from the first line, *)
(* appends each header line to the values of its key in the order of the   *)
(* lines and wraps the body in a new EntityIO for the entity size the new  *)
(* headers announce.                                                       *)
(***************************************************************************)
\* the header values in the order of Python's string comparison
ValueOrder ==
  <<"0", "1", "2", "3", "4", "5", "6", "7", "8", "9",
    "Multipart/Byteranges", "chunked", "gzip", "identity", "text/html">>

ValueRank(v) == CHOOSE i \in 1..Len(ValueOrder) : ValueOrder[i] = v

RECURSIVE SortedValues(_)

\* sorted() on the values of one key
SortedValues(l) ==
  IF l = <<>> THEN <<>>
  ELSE LET least == CHOOSE i \in 1..Len(l) :
                      \A j \in 1..Len(l) : ValueRank(l[i]) <= ValueRank(l[j])
       IN  <<l[least]>> \o
           SortedValues(SubSeq(l, 1, least - 1) \o SubSeq(l, least + 1, Len(l)))

\* the items of one key as (key, value) pairs
Items(name, l) == [i \in 1..Len(l) |-> <<name, l[i]>>]

\* sorted(self.items()) of str_head: the (key, value) pairs by key, then value
str_head_items(h) ==
  Items("Content-Length", SortedValues(h.cl))
    \o Items("Content-Type", SortedValues(h.ct))
    \o Items("Transfer-Encoding", SortedValues(h.te))

RECURSIVE ValuesOf(_, _)

\* HttpMessage.set_headers_from: append_at(k, v) for each line, in order; the
\* values a key ends up with
ValuesOf(lines, name) ==
  IF lines = <<>> THEN <<>>
  ELSE (IF lines[1][1] = name THEN <<lines[1][2]>> ELSE <<>>)
         \o ValuesOf(Tail(lines), name)

set_headers_from(lines) ==
  [te |-> ValuesOf(lines, "Transfer-Encoding"),
   cl |-> ValuesOf(lines, "Content-Length"),
   ct |-> ValuesOf(lines, "Content-Type")]

\* HttpMessage.__str__ after the seek that ended as s: read() to the end; a
\* ReentrantDispatch of either call leaves the data empty
StrRead(s) ==
  IF s.out.kind = "raise"
    THEN IF s.out.exc = "ReentrantDispatch" THEN Ret(s.b, None) ELSE s
  ELSE IF s.b.cls = "EntityIO" THEN read(s.b, TRUE, 0)
  ELSE Wrap_read(s.b, TRUE, 0)

StrData(r) ==
  IF r.out.kind = "raise" /\ r.out.exc = "ReentrantDispatch" THEN Ret(r.b, None) ELSE r

\* what str(message) returns when the read ended as r and the headers are h
Serialized(h, r) ==
  IF r.out.kind = "raise" THEN [kind |-> "raise", exc |-> r.out.exc]
  ELSE [kind |-> "str", lines |-> str_head_items(h), body |-> r.out.data]

\* str(message)
Str ==
  /\ io_class # "none"
  /\ wrote' = wrote
  /\ Apply("__str__", TRUE, 0, 0,
           StrData(StrRead(IF io_class = "EntityIO" THEN seek(Buffer, 0, SEEK_SET)
                           ELSE Wrap_seek(Buffer, 0, SEEK_SET))))
  /\ serial' = Serialized(headers', [out |-> out'])
  /\ origin' = origin

\* HttpMessage(fileobj=StringIO(serial)): the message parsed from the last
\* serialization.  The body of a serialization holds the entity unframed, so
\* under the chunked reader it is a source that is not well-formed.
Reparse ==
  /\ serial.kind = "str"
  /\ ops' = 0
  /\ op' = [name |-> "__init__", all |-> FALSE, n |-> 0, whence |-> 0]
  /\ origin' = serial
  /\ serial' = [kind |-> "none"]
  /\ headers' = set_headers_from(serial.lines)
  /\ request_method' = "None"
  /\ raw_fileobj' = TRUE
  /\ UNCHANGED <<msg_class, method, status_code>>
  /\ LET entity_size == EntitySize(Message')
     IN  /\ reader' = EntityReader(entity_size)
         /\ size' = entity_size.n
         /\ payload' = CASE entity_size.const = "int" -> Take(serial.body, entity_size.n)
                         [] entity_size.const = "CONNECTION_CLOSE" -> serial.body
                         [] OTHER -> <<>>
         /\ wellformed' = CASE entity_size.const = "int" ->
                                 Len(serial.body) >= entity_size.n
                            [] entity_size.const = "CONNECTION_CLOSE" -> TRUE
                            [] OTHER -> FALSE
  /\ fileobj' = serial.body
  /\ io_class' = "EntityIO"
  /\ store' = <<>>
  /\ fpos' = 0
  /\ io_pos' = 0
  /\ buffering_started' = FALSE
  /\ is_dispatching' = FALSE
  /\ pos' = 0
  /\ finished' = FALSE
  /\ result' = [kind |-> "none"]
  /\ decoded' = <<>>
  /\ calls' = 0
  /\ reads' = 0
  /\ subscriber' = "relay"
  /\ log' = <<>>
  /\ out' = [kind |-> "none"]
  /\ wrote' = FALSE
  /\ UNCHANGED <<cvars, hvars, dvars>>

NextRoundTrip ==
  \/ BufferChunk
  \/ ReadSome
  \/ Str
  \/ Reparse

SpecRoundTrip == InitMessage /\ [][NextRoundTrip]_vars

(***************************************************************************)
(* C31: round trip: when a message parsed from the serialization of a      *)
(* message is serialized again, the second serialization has the same      *)
(* header lines (taken in sorted order on both sides) and the same body    *)
(* bytes as the first.                                                     *)
(***************************************************************************)
C31_RoundTrip ==
  (origin.kind = "str" /\ serial.kind # "none") =>
    /\ serial.kind = "str"
    /\ serial.lines = origin.lines
    /\ serial.body = origin.body

====
